---- MODULE Spec2Model ----
(***************************************************************************)
(* Model of the analytics WebSocket gateway (api/websocket_handler.py):    *)
(* ConnectionManager, WebSocketHandler, the receive loop of each           *)
(* connection and the analytics_request units of work (asyncio tasks).     *)
(*                                                                         *)
(* Scheduling is asyncio's: one coroutine runs at a time and control       *)
(* changes hands only at an await that suspends.  Every action below is    *)
(* one such run, from a resumption to the next suspension.  The awaits     *)
(* that suspend are websocket.receive_text() and agent.generate(), and     *)
(* websocket.send_text() when the transport makes the sender wait;         *)
(* otherwise send_text returns at once and the run goes on.                *)
(* ConnectionManager.disconnect() has no await inside and never suspends.  *)
(*                                                                         *)
(* Strings that the code formats or compares by prefix (session ids,       *)
(* request ids, in-flight keys) are sequences of one-character strings.    *)
(***************************************************************************)
EXTENDS Integers, Sequences, FiniteSets, TLC

\* ---------------------------------------------------------------- bounds
\* Coroutines created overall: handle_connection calls and units of work.
MaxCoroutines == 3
\* Text frames received overall.
MaxFrames == 2
\* Times the transport makes a send_text wait (backpressure) overall.
MaxBackpressure == 2

\* ---------------------------------------------------------------- inputs
\* The WebSocket objects handed to handle_connection, one per connection,
\* numbered in the order of acceptance.
Sockets == {1, 2}
NoSocket == 0
\* Caller-chosen session ids; "a" is a prefix of "ab".  The first connection
\* uses "a", the second one "a" again or "ab".
SessionIds == {<<"a">>, <<"a", "b">>}
SessionChoices(w) == IF w = 1 THEN {<<"a">>} ELSE SessionIds
\* Python's None, and a key missing from the inbound message.
NoneVal == <<"None">>
Absent == <<"Absent">>
\* A JSON number sent where the envelope has a string.
NumVal == <<"int 5">>
\* The message_id, correlation_id and request_id fields of the inbound
\* messages: all three absent; message_id and correlation_id (the shape the
\* test clients send); all three present and different; request_id present
\* and equal to correlation_id; a correlation_id that is a number.
Messages ==
    {[mid |-> Absent, cid |-> Absent, rid |-> Absent],
     [mid |-> <<"m">>, cid |-> NumVal, rid |-> Absent],
     [mid |-> <<"m">>, cid |-> <<"c">>, rid |-> Absent],
     [mid |-> <<"m">>, cid |-> <<"c">>, rid |-> <<"r">>],
     [mid |-> <<"m">>, cid |-> <<"c">>, rid |-> <<"c">>]}
\* Kinds of text frame a client can send.
FrameKinds == {"malformed", "nonobject", "analytics_request", "ping",
               "control_ping", "control_other", "unknown"}
\* Places of the unit of work where an exception can be raised by the
\* payload, the engine or the response conversion.
FailPoints == {"none", "parse", "construct", "generate", "convert"}

VARIABLES
    loggers,              \* logging: name -> level and handler levels
    active_connections,   \* ConnectionManager.active_connections: sid -> socket
    connection_metadata,  \* ConnectionManager.connection_metadata: sid -> request_count
    active_requests,      \* WebSocketHandler.active_requests: key -> task
    total_requests,       \* WebSocketHandler.total_requests
    total_errors,         \* WebSocketHandler.total_errors
    conn,                 \* per socket: the handle_connection coroutine
    alive,                \* per socket: the transport is still up
    tasks,                \* the asyncio tasks created by _handle_message
    log,                  \* per socket: messages handed to send_text, in call order
    frames,               \* number of text frames received so far
    suspends,             \* number of send_text calls that had to wait so far
    shutdown_done,        \* WebSocketHandler.shutdown has run
    call,                 \* the stateless operation called last, with its arguments
    ret                   \* what that call returned

vars == <<active_connections, connection_metadata, active_requests,
          total_requests, total_errors, conn, alive, tasks, log, frames,
          suspends, shutdown_done>>

\* The calls of the stateless operations (HTTP endpoints, payload parsing,
\* transformer, executor, axis mapper) are modelled apart from the gateway.
libvars == <<call, ret, loggers>>
allvars == <<vars, libvars>>
NoCall == [op |-> "none"]

\* ---------------------------------------------------------------- helpers
EmptyMap == [x \in {} |-> 0]

\* dict[k] = v
Put(f, k, v) == [x \in (DOMAIN f) \cup {k} |-> IF x = k THEN v ELSE f[x]]

\* dict.pop(k, None) / del dict[k]
Pop(f, k) == [x \in (DOMAIN f) \ {k} |-> f[x]]

\* dict.get(key, default) on the inbound message
Get(field, default) == IF field = Absent THEN default ELSE field

\* str() as applied by an f-string
Str(v) == IF v = NoneVal THEN <<"N", "o", "n", "e">>
          ELSE IF v = NumVal THEN <<"5">> ELSE v

\* correlation_id: Optional[str] of the outbound envelopes: the validation
\* of the model accepts None and strings and raises on anything else.
Valid(v) == v # NumVal

\* f"{session_id}_{request_id}"
RequestKey(sid, rid) == sid \o <<"_">> \o Str(rid)

\* str.startswith
StartsWith(s, p) == Len(p) <= Len(s) /\ SubSeq(s, 1, Len(p)) = p

TaskIds == 1..Len(tasks)

\* ---------------------------------------------------------------- messages
StatusMsg(corr, prog, tid) ==
    [type |-> "status", sub |-> "processing", corr |-> corr, rid |-> NoneVal,
     prog |-> prog, task |-> tid]

ResponseMsg(corr, rid, tid) ==
    [type |-> "analytics_response", sub |-> "", corr |-> corr, rid |-> rid,
     prog |-> 0, task |-> tid]

ErrorMsg(corr, code, tid) ==
    [type |-> "error", sub |-> code, corr |-> corr, rid |-> NoneVal,
     prog |-> 0, task |-> tid]

ControlMsg(subtype) ==
    [type |-> "control", sub |-> subtype, corr |-> NoneVal, rid |-> NoneVal,
     prog |-> 0, task |-> 0]

\* ---------------------------------------------------------------- Init
Init ==
    /\ active_connections = EmptyMap
    /\ connection_metadata = EmptyMap
    /\ active_requests = EmptyMap
    /\ total_requests = 0
    /\ total_errors = 0
    /\ conn = [w \in Sockets |-> [pc |-> "idle", sid |-> <<>>, sock |-> NoSocket]]
    /\ alive = [w \in Sockets |-> TRUE]
    /\ tasks = <<>>
    /\ log = [w \in Sockets |-> <<>>]
    /\ frames = 0
    /\ suspends = 0
    /\ shutdown_done = FALSE
    /\ call = NoCall
    /\ ret = NoCall
    /\ loggers = EmptyMap

\* ---------------------------------------------------------------- unit of work
\* correlation_id = message.get("correlation_id", message.get("message_id"))
CorrelationOf(cid, mid) == Get(cid, Get(mid, NoneVal))

\* request_id = message.get("request_id", correlation_id)
RequestIdOf(rid, cid, mid) == Get(rid, CorrelationOf(cid, mid))

\* The key under which _handle_message registers the task.
RegisteredKey(sid, cid, mid) == RequestKey(sid, CorrelationOf(cid, mid))

\* The key that the finally clause of _handle_analytics_request pops.
FinallyKey(t) == RequestKey(t.sid, t.rid)

\* The progress values with those of the second and third status exchanged:
\* the order that C4 excludes.
ProgressExchanged(pc) ==
    CASE pc = "send1" -> 10
      [] pc = "send2" -> 50
      [] pc = "send3" -> 25
      [] pc = "send4" -> 90

\* The progress value (in percent) of the status sent at each send.
Progress(pc) ==
    CASE pc = "send1" -> 10
      [] pc = "send2" -> 25
      [] pc = "send3" -> 50
      [] pc = "send4" -> 90

\* Where the coroutine continues when the await it is suspended in returns.
AfterAwait(pc) ==
    CASE pc = "send1" -> "parse"
      [] pc = "send2" -> "construct"
      [] pc = "send3" -> "generate"
      [] pc = "generate" -> "postgen"
      [] pc = "send4" -> "convert"
      [] pc = "send5" -> "finally"
      [] pc = "sendErr" -> "finally"

\* Where the coroutine continues when the await it is suspended in raises:
\* inside the try block the except clause, inside the except clause the
\* finally clause.
AfterRaise(pc) == IF pc = "sendErr" THEN "finally" ELSE "except"

\* The state a unit of work reads and writes while it runs.
World(pc, sock, exc) ==
    [tr |-> total_requests, te |-> total_errors, meta |-> connection_metadata,
     log |-> log, areq |-> active_requests, pc |-> pc, sock |-> sock,
     susp |-> suspends, exc |-> exc]

\* A statement of the try block raises at the place fail.
Raise(W, fail) == [W EXCEPT !.exc = fail]

\* The exception that the except clause has caught: the one raised by a
\* statement of the try block, or else the one raised by a send.
Caught(exc) == IF exc = "none" THEN "send" ELSE exc

\* An error count that the except clause leaves as it is: the count that
\* C11 excludes.
CountErrorNever(te) == te

\* self.total_errors += 1
CountError(te) == te + 1

\* A request count kept for sessions that are not registered as well: the
\* count that C30 excludes.
CountRequestUnguarded(meta, sid) ==
    Put(meta, sid, IF sid \in DOMAIN meta THEN meta[sid] + 1 ELSE 1)

\* A request count that grows by two for one request: the count that C29
\* excludes.
CountRequestTwice(meta, sid) ==
    IF sid \in DOMAIN meta THEN [meta EXCEPT ![sid] = @ + 2] ELSE meta

\* connection_metadata[session_id]["request_count"] += 1, if registered
CountRequest(meta, sid) ==
    IF sid \in DOMAIN meta THEN [meta EXCEPT ![sid] = @ + 1] ELSE meta

\* The places where a run can be made to wait by the transport.
TaskSends == {"send1", "send2", "send3", "send4", "send5", "sendErr"}

\* The order of the places of _handle_analytics_request in its text.
Ord(pt) ==
    CASE pt = "start" -> 0 [] pt = "send1" -> 1 [] pt = "parse" -> 2
      [] pt = "send2" -> 3 [] pt = "construct" -> 4 [] pt = "send3" -> 5
      [] pt = "generate" -> 6 [] pt = "postgen" -> 7 [] pt = "send4" -> 8
      [] pt = "convert" -> 9 [] pt = "send5" -> 10 [] pt = "except" -> 11
      [] pt = "sendErr" -> 12 [] pt = "finally" -> 13 [] pt = "none" -> 14

\* The place where the exception named fail is raised.
RaisedAt(fail) == IF fail = "generate" THEN "postgen" ELSE fail

\* The last place a run from pt can get to inside the try block: the call
\* of the engine always suspends.
RunEnd(pt) == IF Ord(pt) <= Ord("generate") THEN Ord("generate")
              ELSE Ord("send5")

\* The choices of fail and stop that a run from pt can meet: an exception
\* at a place ahead, and a wait at a send ahead that comes before the
\* exception, or at the send of the error once an exception is raised.
Plan(pt, fail, stop) ==
    /\ fail # "none" =>
          /\ Ord(pt) <= Ord(RaisedAt(fail))
          /\ Ord(RaisedAt(fail)) <= RunEnd(pt)
    /\ stop = "sendErr" => fail # "none" \/ pt = "except"
    /\ stop \notin {"none", "sendErr"} =>
          /\ Ord(pt) <= Ord(stop)
          /\ Ord(stop) <= RunEnd(pt)
          /\ Ord(stop) < Ord(RaisedAt(fail))

\* The send at which the transport makes this run wait, if it gets there.
Waits(stop, pc) == stop = pc /\ suspends < MaxBackpressure

RECURSIVE Run(_, _, _, _, _, _)
RECURSIVE TaskSend(_, _, _, _, _, _, _)

\* A _send_* call of the unit of work tid at the send named pc: the
\* envelope is constructed, which raises when it is not valid; then
\* ConnectionManager.send_message: nothing when the session is not
\* registered; otherwise
\* send_text on the registered socket, which raises on a failed transport
\* and otherwise hands the message to the transport and returns, at once or
\* after a wait.
TaskSend(pc, msg, tid, t, W, fail, stop) ==
    IF ~Valid(msg.corr) \/ ~Valid(msg.rid)
    THEN Run(AfterRaise(pc), tid, t, W, fail, stop)
    ELSE IF t.sid \notin DOMAIN active_connections
    THEN Run(AfterAwait(pc), tid, t, W, fail, stop)
    ELSE LET w == active_connections[t.sid]
             sent == [W EXCEPT !.log[w] = Append(@, msg)]
         IN IF ~alive[w]
            THEN Run(AfterRaise(pc), tid, t, W, fail, stop)
            ELSE IF Waits(stop, pc)
            THEN [sent EXCEPT !.pc = pc, !.sock = w, !.susp = @ + 1]
            ELSE Run(AfterAwait(pc), tid, t, sent, fail, stop)

\* _handle_analytics_request from the point pt up to its next suspension.
\* fail names the place where this run raises, if it passes it.
Run(pt, tid, t, W, fail, stop) ==
    CASE pt = "start" ->
           TaskSend("send1", StatusMsg(t.corr, Progress("send1"), tid), tid, t,
                    [W EXCEPT !.tr = @ + 1, !.meta = CountRequest(@, t.sid)],
                    fail, stop)
      [] pt = "parse" ->
           IF fail = "parse"
           THEN Run("except", tid, t, Raise(W, fail), fail, stop)
           ELSE TaskSend("send2", StatusMsg(t.corr, Progress("send2"), tid),
                         tid, t, W, fail, stop)
      [] pt = "construct" ->
           IF fail = "construct"
           THEN Run("except", tid, t, Raise(W, fail), fail, stop)
           ELSE TaskSend("send3", StatusMsg(t.corr, Progress("send3"), tid),
                         tid, t, W, fail, stop)
      [] pt = "generate" ->
           [W EXCEPT !.pc = "generate", !.sock = NoSocket]
      [] pt = "postgen" ->
           IF fail = "generate"
           THEN Run("except", tid, t, Raise(W, fail), fail, stop)
           ELSE TaskSend("send4", StatusMsg(t.corr, Progress("send4"), tid),
                         tid, t, W, fail, stop)
      [] pt = "convert" ->
           IF fail = "convert"
           THEN Run("except", tid, t, Raise(W, fail), fail, stop)
           ELSE TaskSend("send5", ResponseMsg(t.corr, t.rid, tid),
                         tid, t, W, fail, stop)
      [] pt = "except" ->
           TaskSend("sendErr", ErrorMsg(t.corr, "GENERATION_FAILED", tid),
                    tid, t,
                    [W EXCEPT !.te = CountError(@), !.exc = Caught(@)],
                    fail, stop)
      [] pt = "finally" ->
           [W EXCEPT !.areq = Pop(@, FinallyKey(t)), !.pc = "done",
                     !.sock = NoSocket]

\* The variables after the unit of work tid has run to the world W.
Commit(tid, W) ==
    /\ total_requests' = W.tr
    /\ total_errors' = W.te
    /\ connection_metadata' = W.meta
    /\ log' = W.log
    /\ active_requests' = W.areq
    /\ suspends' = W.susp
    /\ tasks' = [tasks EXCEPT ![tid].pc = W.pc, ![tid].sock = W.sock,
                                 ![tid].exc = W.exc]

\* The event loop runs a task for the first time.
TaskStart(tid) ==
    /\ tasks[tid].pc = "created"
    /\ ~tasks[tid].cancelled
    /\ \E fail \in FailPoints, stop \in TaskSends \cup {"none"} :
         /\ Plan("start", fail, stop)
         /\ Commit(tid, Run("start", tid, tasks[tid],
                            World("created", NoSocket, "none"),
                            fail, stop))
    /\ UNCHANGED <<active_connections, conn, alive, frames, shutdown_done>>

\* The await a task is suspended in returns or raises, and the task runs on.
\* A send_text in progress raises only when the transport has failed.
TaskResume(tid) ==
    LET t == tasks[tid] IN
    /\ t.pc \notin {"created", "done"}
    /\ ~t.cancelled
    /\ \E fail \in FailPoints, stop \in TaskSends \cup {"none"} :
         LET raised == t.pc # "generate" /\ ~alive[t.sock]
             pt == IF raised THEN AfterRaise(t.pc) ELSE AfterAwait(t.pc)
         IN /\ Plan(pt, fail, stop)
            /\ Commit(tid, Run(pt, tid, t, World(t.pc, t.sock, t.exc),
                               fail, stop))
    /\ UNCHANGED <<active_connections, conn, alive, frames, shutdown_done>>

\* A cancelled task is resumed with CancelledError, which "except Exception"
\* does not catch: only the finally clause runs.  A task cancelled before
\* its first run never enters the try block.
TaskCancelled(tid) ==
    LET t == tasks[tid] IN
    /\ t.pc # "done"
    /\ t.cancelled
    /\ tasks' = [tasks EXCEPT ![tid].pc = "done", ![tid].sock = NoSocket]
    /\ active_requests' = IF t.pc = "created" THEN active_requests
                          ELSE Pop(active_requests, FinallyKey(t))
    /\ UNCHANGED <<active_connections, connection_metadata, total_requests,
                   total_errors, conn, alive, log, frames, suspends,
                   shutdown_done>>

\* ---------------------------------------------------------------- connections
\* ConnectionManager.disconnect: both tables lose the session, if registered.
Deregister(table, sid) ==
    IF sid \in DOMAIN active_connections THEN Pop(table, sid) ELSE table

\* A selection that finds only a key equal to the session id, hence none:
\* the clean-up that C1 excludes.
SessionKeysEqual(areq, sid) == {k \in DOMAIN areq : k = sid}

\* The in-flight keys that the finally clause of handle_connection selects.
SessionKeys(areq, sid) == {k \in DOMAIN areq : StartsWith(k, sid)}

\* task.cancel() on the tasks ids; cancelling a finished task does nothing.
Cancel(tsk, ids) ==
    [i \in DOMAIN tsk |->
        IF i \in ids /\ tsk[i].pc # "done"
        THEN [tsk[i] EXCEPT !.cancelled = TRUE] ELSE tsk[i]]

\* The tasks registered under the keys ks.
TasksAt(areq, ks) == {areq[k] : k \in ks}

\* The finally clause of handle_connection.
Cleanup(sid) ==
    /\ active_connections' = Deregister(active_connections, sid)
    /\ connection_metadata' = Deregister(connection_metadata, sid)
    /\ active_requests' =
         [k \in (DOMAIN active_requests) \ SessionKeys(active_requests, sid)
            |-> active_requests[k]]

RECURSIVE LoopSend(_, _, _, _, _)
RECURSIVE LoopRaise(_, _, _, _)

\* An exception raised by a send of the receive loop: inside the inner try
\* block it is caught and answered with INTERNAL_ERROR; inside an except
\* clause it leaves the loop (finally clause); the connection_ack is sent
\* outside any try block.
LoopRaise(ctx, sid, L, wait) ==
    CASE ctx = "sendTry" ->
           LoopSend("sendHandler", ErrorMsg(NoneVal, "INTERNAL_ERROR", 0),
                    sid, L, wait)
      [] ctx = "sendHandler" ->
           [log |-> L, pc |-> "closing", sock |-> NoSocket, susp |-> suspends]
      [] ctx = "sendAck" ->
           [log |-> L, pc |-> "crashed", sock |-> NoSocket, susp |-> suspends]

\* A _send_* call of handle_connection, the send being in the context ctx:
\* the envelope is constructed, which raises when it is not valid; then
\* ConnectionManager.send_message; wait: the transport makes the sender wait.
LoopSend(ctx, msg, sid, L, wait) ==
    IF ~Valid(msg.corr)
    THEN LoopRaise(ctx, sid, L, wait)
    ELSE IF sid \notin DOMAIN active_connections
    THEN [log |-> L, pc |-> "recv", sock |-> NoSocket, susp |-> suspends]
    ELSE LET w == active_connections[sid]
             sent == [L EXCEPT ![w] = Append(@, msg)]
         IN IF ~alive[w]
            THEN LoopRaise(ctx, sid, L, wait)
            ELSE IF wait /\ suspends < MaxBackpressure
            THEN [log |-> sent, pc |-> ctx, sock |-> w, susp |-> suspends + 1]
            ELSE [log |-> sent, pc |-> "recv", sock |-> NoSocket,
                  susp |-> suspends]

\* The variables after the coroutine of socket w has run to R; a run that
\* leaves the receive loop executes the finally clause.
ConnCommit(w, R) ==
    /\ log' = R.log
    /\ suspends' = R.susp
    /\ IF R.pc = "closing"
       THEN /\ conn' = [conn EXCEPT ![w].pc = "closed", ![w].sock = NoSocket]
            /\ Cleanup(conn[w].sid)
            /\ tasks' = Cancel(tasks, TasksAt(active_requests,
                               SessionKeys(active_requests, conn[w].sid)))
       ELSE /\ conn' = [conn EXCEPT ![w].pc = R.pc, ![w].sock = R.sock]
            /\ UNCHANGED <<active_connections, connection_metadata,
                           active_requests, tasks>>

\* A request counter that starts at one: the registration that C10 excludes.
NewMetadataCounted == 0 + 1

\* metadata of a new session: request_count
NewMetadata == 0

\* The coroutines created so far.
Coroutines == Cardinality({w \in Sockets : conn[w].pc # "idle"}) + Len(tasks)

\* handle_connection up to the send of connection_ack: accept, register.
Connect(w, sid) ==
    /\ conn[w].pc = "idle"
    /\ \A v \in Sockets : v < w => conn[v].pc # "idle"
    /\ Coroutines < MaxCoroutines
    /\ ~shutdown_done
    /\ active_connections' = Put(active_connections, sid, w)
    /\ connection_metadata' = Put(connection_metadata, sid, NewMetadata)
    /\ log' = [log EXCEPT ![w] = Append(@, ControlMsg("connection_ack"))]
    /\ \E wait \in BOOLEAN :
         IF wait /\ suspends < MaxBackpressure
         THEN /\ conn' = [conn EXCEPT ![w] =
                            [pc |-> "sendAck", sid |-> sid, sock |-> w]]
              /\ suspends' = suspends + 1
         ELSE /\ conn' = [conn EXCEPT ![w] =
                            [pc |-> "recv", sid |-> sid, sock |-> NoSocket]]
              /\ suspends' = suspends
    /\ UNCHANGED <<active_requests, total_requests, total_errors, alive,
                   tasks, frames, shutdown_done>>

\* A send_text of handle_connection returns, or raises on a failed transport.
SendDone(w) ==
    /\ conn[w].pc \in {"sendAck", "sendTry", "sendHandler"}
    /\ \E wait \in BOOLEAN :
         ConnCommit(w,
            IF ~alive[conn[w].sock]
            THEN LoopRaise(conn[w].pc, conn[w].sid, log, wait)
            ELSE [log |-> log, pc |-> "recv", sock |-> NoSocket,
                  susp |-> suspends])
    /\ UNCHANGED <<total_requests, total_errors, alive, frames, shutdown_done>>

\* The reply of the receive loop to a frame that starts no unit of work:
\* the context of the send and the message.
ReplyCtx(kind) == IF kind \in {"malformed", "nonobject"} THEN "sendHandler"
                  ELSE "sendTry"

\* The replies with a malformed frame answered like any other failure of
\* the handler: the answer that C6 excludes.
ReplyUniform(kind, cid) ==
    CASE kind \in {"malformed", "nonobject"} ->
           ErrorMsg(NoneVal, "INTERNAL_ERROR", 0)
      [] kind \in {"ping", "control_ping"} -> ControlMsg("pong")
      [] kind = "unknown" ->
           ErrorMsg(Get(cid, NoneVal), "UNKNOWN_MESSAGE_TYPE", 0)

\* The replies with a ping taken for a message of unknown type: the answer
\* that C14 excludes.
ReplyPingUnknown(kind, cid) ==
    CASE kind = "malformed" -> ErrorMsg(NoneVal, "INVALID_JSON", 0)
      [] kind = "nonobject" -> ErrorMsg(NoneVal, "INTERNAL_ERROR", 0)
      [] kind \in {"ping", "control_ping", "unknown"} ->
           ErrorMsg(Get(cid, NoneVal), "UNKNOWN_MESSAGE_TYPE", 0)

\* The reply of the receive loop to each kind of frame.
Reply(kind, cid) ==
    CASE kind = "malformed" -> ErrorMsg(NoneVal, "INVALID_JSON", 0)
      [] kind = "nonobject" -> ErrorMsg(NoneVal, "INTERNAL_ERROR", 0)
      [] kind \in {"ping", "control_ping"} -> ControlMsg("pong")
      [] kind = "unknown" ->
           ErrorMsg(Get(cid, NoneVal), "UNKNOWN_MESSAGE_TYPE", 0)

\* The task created for an analytics_request received on socket w.
NewTask(w, sid, mid, cid, rid) ==
    [sid |-> sid, corr |-> CorrelationOf(cid, mid),
     rid |-> RequestIdOf(rid, cid, mid), pc |-> "created", sock |-> NoSocket,
     cancelled |-> FALSE, owner |-> w, exc |-> "none"]

\* receive_text returns a frame; json.loads and _handle_message.
Receive(w, kind, mid, cid, rid) ==
    /\ conn[w].pc = "recv"
    /\ alive[w]
    /\ frames < MaxFrames
    /\ frames' = frames + 1
    /\ IF kind = "analytics_request"
       THEN /\ Coroutines < MaxCoroutines
            /\ tasks' = Append(tasks, NewTask(w, conn[w].sid, mid, cid, rid))
            /\ active_requests' =
                 Put(active_requests, RegisteredKey(conn[w].sid, cid, mid),
                     Len(tasks) + 1)
            /\ UNCHANGED <<active_connections, connection_metadata, conn, log,
                           suspends>>
       ELSE IF kind = "control_other"
       THEN UNCHANGED <<active_connections, connection_metadata,
                        active_requests, tasks, conn, log, suspends>>
       ELSE \E wait \in BOOLEAN :
               ConnCommit(w, LoopSend(ReplyCtx(kind), Reply(kind, cid),
                                      conn[w].sid, log, wait))
    /\ UNCHANGED <<total_requests, total_errors, alive, shutdown_done>>

\* receive_text raises (WebSocketDisconnect or a read error): finally clause.
Disconnect(w) ==
    /\ conn[w].pc = "recv"
    /\ ~alive[w]
    /\ ConnCommit(w, [log |-> log, pc |-> "closing", sock |-> NoSocket,
                      susp |-> suspends])
    /\ UNCHANGED <<total_requests, total_errors, alive, frames, shutdown_done>>

\* The client goes away or the transport fails.
TransportFails(w) ==
    /\ conn[w].pc \notin {"idle", "closed", "crashed"}
    /\ alive[w]
    /\ alive' = [alive EXCEPT ![w] = FALSE]
    /\ UNCHANGED <<active_connections, connection_metadata, active_requests,
                   total_requests, total_errors, conn, tasks, log, frames,
                   suspends, shutdown_done>>

\* WebSocketHandler.shutdown: cancel every tracked task (the table keeps
\* them), then ConnectionManager.disconnect for every registered session.
Shutdown ==
    /\ ~shutdown_done
    /\ shutdown_done' = TRUE
    /\ tasks' = Cancel(tasks, TasksAt(active_requests, DOMAIN active_requests))
    /\ active_connections' = EmptyMap
    /\ connection_metadata' =
         [s \in (DOMAIN connection_metadata) \ (DOMAIN active_connections)
            |-> connection_metadata[s]]
    /\ UNCHANGED <<active_requests, total_requests, total_errors, conn, alive,
                   log, frames, suspends>>

\* ---------------------------------------------------------------- specification
Next ==
    \/ \E w \in Sockets : \E sid \in SessionChoices(w) :
          Connect(w, sid) /\ UNCHANGED libvars
    \/ \E w \in Sockets, kind \in FrameKinds, m \in Messages :
          Receive(w, kind, m.mid, m.cid, m.rid) /\ UNCHANGED libvars
    \/ \E w \in Sockets : SendDone(w) /\ UNCHANGED libvars
    \/ \E w \in Sockets : Disconnect(w) /\ UNCHANGED libvars
    \/ \E w \in Sockets : TransportFails(w) /\ UNCHANGED libvars
    \/ \E tid \in TaskIds : TaskStart(tid) /\ UNCHANGED libvars
    \/ \E tid \in TaskIds : TaskResume(tid) /\ UNCHANGED libvars
    \/ \E tid \in TaskIds : TaskCancelled(tid) /\ UNCHANGED libvars
    \/ Shutdown /\ UNCHANGED libvars

Spec == Init /\ [][Next]_allvars

\* ---------------------------------------------------------------- payload of an analytics_request
\* The 23 chart types.
ChartTypes ==
    {"line_chart", "step_chart", "area_chart", "stacked_area_chart",
     "bar_chart_vertical", "bar_chart_horizontal", "grouped_bar", "stacked_bar",
     "histogram", "box_plot", "violin_plot",
     "scatter_plot", "bubble_chart", "hexbin",
     "pie_chart", "waterfall", "funnel",
     "radar_chart", "heatmap",
     "error_bar", "control_chart", "pareto",
     "gantt"}

\* Values of payload["chart_preference"]: the key is missing, a string, or a
\* member of the ChartType enumeration.
NoPreference == <<"absent", "">>
StrValue(x) == <<"str", x>>
EnumValue(x) == <<"ChartType", x>>

\* The chart_preference strings that clients send.
PreferenceInputs ==
    {NoPreference} \cup {StrValue(x) : x \in ChartTypes}
    \cup {StrValue("not_a_real_chart"), StrValue("Line Chart")}

\* The conversion of the chart preference in _handle_analytics_request:
\* ChartType(value) replaces the string; on ValueError the payload is left
\* as it is.
ConvertPreference(pref) ==
    IF pref = NoPreference THEN pref
    ELSE IF pref[2] \in ChartTypes THEN EnumValue(pref[2])
    ELSE pref

\* What AnalyticsRequest(**payload) does with a chart_preference that is
\* neither absent nor a ChartType: its validation raises, or it keeps the
\* value as given.
ConstructorOutcomes == {"raise", "keep"}

\* AnalyticsRequest(**payload), chart_preference being "a ChartType or
\* absent": the outcome of the unit of work and the preference of the
\* request handed to the engine.
AnalyticsRequest(pref, outcome) ==
    IF pref = NoPreference \/ pref[1] = "ChartType" \/ outcome = "keep"
    THEN [outcome |-> "engine", pref |-> pref]
    ELSE [outcome |-> "GENERATION_FAILED", pref |-> NoPreference]

\* The payload steps of the unit of work for a given chart_preference.
ParsePayload(pref, outcome) ==
    /\ call' = [op |-> "payload", pref |-> pref]
    /\ ret' = AnalyticsRequest(ConvertPreference(pref), outcome)
    /\ UNCHANGED <<vars, loggers>>

\* ---------------------------------------------------------------- HTTP and upgrade endpoints
\* Settings.has_llm_configured: a key of either provider is set.
has_llm_configured(google_api_key, openai_api_key) ==
    google_api_key \/ openai_api_key

\* GET /health: ws_handler is set (initialized) or None; the keys are set
\* (TRUE) or empty.  The status code and the status of the body.
health_check(initialized, google_api_key, openai_api_key) ==
    LET status == IF initialized /\ google_api_key THEN "healthy"
                  ELSE "degraded"
    IN [code |-> IF status = "healthy" THEN 200 ELSE 503, status |-> status,
        websocket_handler |-> IF initialized THEN "ready"
                              ELSE "not_initialized",
        llm |-> IF google_api_key THEN "configured" ELSE "not_configured"]

HealthCheck(initialized, google_api_key, openai_api_key) ==
    /\ call' = [op |-> "health", initialized |-> initialized,
                google_api_key |-> google_api_key,
                openai_api_key |-> openai_api_key]
    /\ ret' = health_check(initialized, google_api_key, openai_api_key)
    /\ UNCHANGED <<vars, loggers>>

\* An endpoint without the check of ws_handler: the upgrade that C16
\* excludes.
websocket_endpoint_unguarded(initialized) ==
    [closed |-> FALSE, code |-> 0, reason |-> "", handled |-> TRUE]

\* The /ws endpoint: without a handler the socket is closed with a code and
\* a reason and handle_connection is not called.
websocket_endpoint(initialized) ==
    IF ~initialized
    THEN [closed |-> TRUE, code |-> 1011, reason |-> "Service not initialized",
          handled |-> FALSE]
    ELSE [closed |-> FALSE, code |-> 0, reason |-> "", handled |-> TRUE]

\* An upgrade request arrives; with a handler the connection is the
\* gateway's from there on (Connect).
WebsocketUpgrade(initialized) ==
    /\ call' = [op |-> "ws_upgrade", initialized |-> initialized]
    /\ ret' = websocket_endpoint(initialized)
    /\ UNCHANGED <<vars, loggers>>

\* ---------------------------------------------------------------- data transformer
\* Values of the fields of a caller-supplied record: a JSON number, a JSON
\* string (a sequence of characters) or null.  dict.get of a missing key
\* gives None, which is null.
Num(n) == [kind |-> "num", n |-> n, s |-> <<>>]
Text(s) == [kind |-> "text", n |-> 0, s |-> s]
Null == [kind |-> "null", n |-> 0, s |-> <<>>]

\* A record is a dict: its items in insertion order.
Keys(item) == {item[i].k : i \in 1..Len(item)}
Has(item, key) == key \in Keys(item)
Field(item, key) ==
    IF Has(item, key)
    THEN item[CHOOSE i \in 1..Len(item) : item[i].k = key].v
    ELSE Null

\* Python truthiness and "a or b".
Truthy(v) ==
    CASE v.kind = "num" -> v.n # 0
      [] v.kind = "text" -> v.s # <<>>
      [] v.kind = "null" -> FALSE
Or(a, b) == IF Truthy(a) THEN a ELSE b

\* float(v): numbers and strings of one digit convert; other strings raise
\* ValueError and None raises TypeError.
DigitChars == {ToString(n) : n \in 0..9}
CanFloat(v) ==
    \/ v.kind = "num"
    \/ v.kind = "text" /\ Len(v.s) = 1 /\ v.s[1] \in DigitChars
Float(v) ==
    IF v.kind = "num" THEN v
    ELSE Num(CHOOSE n \in 0..9 : ToString(n) = v.s[1])

\* str(v)
StrOf(v) ==
    CASE v.kind = "text" -> v.s
      [] v.kind = "num" -> <<ToString(v.n)>>
      [] v.kind = "null" -> <<"N", "o", "n", "e">>

\* self.field_mappings
LabelNames == <<"label", "name", "category", "x", "key", "item", "id", "title">>
ValueNames == <<"value", "y", "amount", "count", "total", "quantity",
                "measure", "metric", "score", "price", "sales", "revenue">>
TimeNames == <<"date", "time", "timestamp", "period", "month", "year", "day",
               "datetime", "when", "created", "updated">>

\* The value of the first of the names that is a key of the record, or None.
RECURSIVE FirstPresent(_, _, _)
FirstPresent(item, names, i) ==
    IF i > Len(names) THEN Null
    ELSE IF Has(item, names[i]) THEN Field(item, names[i])
    ELSE FirstPresent(item, names, i + 1)

\* The label of a record without a label field: its first string value whose
\* key is none of series, category, type; or else a tag made of id(item).
RECURSIVE FirstString(_, _)
FirstString(item, i) ==
    IF i > Len(item) THEN Text(<<"I", "t", "e", "m", "_">>)
    ELSE IF item[i].v.kind = "text"
            /\ item[i].k \notin {"series", "category", "type"}
    THEN item[i].v
    ELSE FirstString(item, i + 1)

\* _extract_field(item, 'value') and _extract_field(item, 'label')
ExtractValue(item) == FirstPresent(item, ValueNames, 1)

ExtractLabel(item) ==
    IF \E i \in 1..Len(LabelNames) : Has(item, LabelNames[i])
    THEN FirstPresent(item, LabelNames, 1)
    ELSE FirstString(item, 1)

\* _extract_time_field
ExtractTime(item) ==
    IF \E i \in 1..Len(TimeNames) : Has(item, TimeNames[i])
    THEN Text(StrOf(FirstPresent(item, TimeNames, 1)))
    ELSE ExtractLabel(item)

\* str.strip, str.split(sep, 1) at the first sep, and "sep in s".
RECURSIVE Strip(_)
Strip(str) ==
    IF str = <<>> THEN str
    ELSE IF Head(str) = " " THEN Strip(Tail(str))
    ELSE IF str[Len(str)] = " " THEN Strip(SubSeq(str, 1, Len(str) - 1))
    ELSE str
Contains(str, sep) == \E i \in 1..Len(str) : str[i] = sep
FirstIndex(str, sep) ==
    CHOOSE i \in 1..Len(str) :
       str[i] = sep /\ \A j \in 1..(i - 1) : str[j] # sep
Before(str, sep) == SubSeq(str, 1, FirstIndex(str, sep) - 1)
After(str, sep) == SubSeq(str, FirstIndex(str, sep) + 1, Len(str))

\* _parse_matrix_position(item, label): "'-' in label" raises TypeError when
\* the label is not a string.
ParseMatrixPosition(item, label) ==
    IF Has(item, "row") /\ Has(item, "col")
    THEN [raised |-> FALSE, row |-> StrOf(Field(item, "row")),
          col |-> StrOf(Field(item, "col"))]
    ELSE IF Has(item, "day") /\ Has(item, "hour")
    THEN [raised |-> FALSE, row |-> StrOf(Field(item, "day")),
          col |-> StrOf(Field(item, "hour"))]
    ELSE IF label.kind # "text"
    THEN [raised |-> TRUE, row |-> <<>>, col |-> <<>>]
    ELSE IF Contains(label.s, "-")
    THEN [raised |-> FALSE, row |-> Strip(Before(label.s, "-")),
          col |-> Strip(After(label.s, "-"))]
    ELSE IF Contains(label.s, " ")
    THEN [raised |-> FALSE, row |-> Strip(Before(label.s, " ")),
          col |-> Strip(After(label.s, " "))]
    ELSE [raised |-> FALSE, row |-> label.s,
          col |-> <<"V", "a", "l", "u", "e">>]

\* What happens to one record: a DataPoint is emitted, the record is
\* skipped, or an exception is raised (which ends the transformation).
Skip == [r |-> "skip"]
Raised == [r |-> "raise"]
Emit(label, value, meta) ==
    [r |-> "point", label |-> label, value |-> value, meta |-> meta]

\* What the DataPoint model does with a label that is no text or a value
\* that is no number: its validation raises, or it keeps the field.
ModelOutcomes == {"raise", "keep"}

\* DataPoint(label=..., value=..., metadata=...): label is text and value
\* numeric.
DataPoint(label, value, meta, outcome) ==
    IF (label.kind = "text" /\ value.kind = "num") \/ outcome = "keep"
    THEN Emit(label, value, meta)
    ELSE Raised

\* One round of the loop of _transform_heatmap_data.
HeatmapItem(item, outcome) ==
    LET label == ExtractLabel(item)
        value == ExtractValue(item)
        pos == ParseMatrixPosition(item, label)
    IN IF value = Null THEN Skip
       ELSE IF pos.raised \/ ~CanFloat(value) THEN Raised
       ELSE DataPoint(label, Float(value), <<pos.row, pos.col>>, outcome)

\* One round of the loop of _transform_standard_data (series, category and
\* the other metadata are looked up but not modelled).
StandardItem(item, outcome) ==
    LET label == ExtractLabel(item)
        value == ExtractValue(item)
    IN IF value = Null THEN Skip
       ELSE IF ~CanFloat(value) THEN Raised
       ELSE DataPoint(label, Float(value), <<>>, outcome)

\* One round of the loop of _transform_scatter_data.
ScatterItem(item, outcome) ==
    LET label == ExtractLabel(item)
        x_value == Or(Or(Field(item, "x"), Field(item, "satisfaction")),
                      Field(item, "x_value"))
        y_value == ExtractValue(item)
    IN IF x_value = Null \/ y_value = Null THEN Skip
       ELSE IF ~CanFloat(y_value) \/ ~CanFloat(x_value) THEN Raised
       ELSE DataPoint(label, Float(y_value), <<Float(x_value)>>, outcome)

\* One round of the loop of _transform_time_series_data: _parse_timestamp
\* returns None for a falsy label and strptime raises TypeError for a label
\* that is no string (the timestamp itself is not modelled).
TimeSeriesItem(item, outcome) ==
    LET time_label == ExtractTime(item)
        value == ExtractValue(item)
    IN IF value = Null THEN Skip
       ELSE IF ~CanFloat(value) THEN Raised
       ELSE IF Truthy(time_label) /\ time_label.kind # "text" THEN Raised
       ELSE DataPoint(time_label, Float(value), <<>>, outcome)

\* One round of the loop of _transform_gantt_data.
GanttStart(item) == Or(Field(item, "start"), Field(item, "start_date"))
GanttEnd(item) == Or(Field(item, "end"), Field(item, "end_date"))
GanttProgress(item) ==
    IF Has(item, "progress") THEN Field(item, "progress") ELSE Num(0)

GanttItem(item, outcome) ==
    LET label == Or(ExtractLabel(item),
                    IF Has(item, "task") THEN Field(item, "task")
                    ELSE Text(<<"T", "a", "s", "k">>))
    IN IF Truthy(GanttStart(item)) /\ Truthy(GanttEnd(item))
       THEN DataPoint(label, GanttProgress(item),
                      <<GanttStart(item), GanttEnd(item)>>, outcome)
       ELSE Skip

\* The transformation that transform_for_chart selects for a chart type.
TransformOf(chart_type) ==
    CASE chart_type = "heatmap" -> "heatmap"
      [] chart_type \in {"scatter_plot", "bubble_chart"} -> "scatter"
      [] chart_type \in {"line_chart", "area_chart", "step_chart"} -> "time"
      [] chart_type = "gantt" -> "gantt"
      [] OTHER -> "standard"

TransformItem(kind, item, outcome) ==
    CASE kind = "heatmap" -> HeatmapItem(item, outcome)
      [] kind = "scatter" -> ScatterItem(item, outcome)
      [] kind = "time" -> TimeSeriesItem(item, outcome)
      [] kind = "gantt" -> GanttItem(item, outcome)
      [] kind = "standard" -> StandardItem(item, outcome)

\* The loop over user_data from record i on: the DataPoints appended to
\* points, or the exception that ended it.
RECURSIVE TransformItems(_, _, _, _, _)
TransformItems(kind, user_data, i, points, outcome) ==
    IF i > Len(user_data) THEN [raised |-> FALSE, points |-> points]
    ELSE LET step == TransformItem(kind, user_data[i], outcome)
         IN IF step.r = "raise" THEN [raised |-> TRUE, points |-> <<>>]
            ELSE TransformItems(kind, user_data, i + 1,
                    IF step.r = "point" THEN Append(points, step)
                    ELSE points, outcome)

\* Records a caller can supply (the characters of a string are listed one
\* by one).
Items ==
    { <<[k |-> "label", v |-> Text(<<"M", "-", "9">>)], [k |-> "value", v |-> Num(4)]>>,
      <<[k |-> "day", v |-> Text(<<"M">>)], [k |-> "hour", v |-> Num(9)],
        [k |-> "traffic", v |-> Num(4)]>>,
      <<[k |-> "day", v |-> Text(<<"M">>)], [k |-> "hour", v |-> Num(9)],
        [k |-> "traffic", v |-> Num(4)], [k |-> "value", v |-> Num(2)]>>,
      <<[k |-> "label", v |-> Text(<<"A">>)], [k |-> "value", v |-> Null]>>,
      <<[k |-> "label", v |-> Text(<<"A">>)], [k |-> "value", v |-> Null],
        [k |-> "y", v |-> Num(2)]>>,
      <<[k |-> "label", v |-> Text(<<"A">>)], [k |-> "value", v |-> Text(<<"a", "b">>)]>>,
      <<[k |-> "label", v |-> Text(<<"A", " ", "b">>)], [k |-> "value", v |-> Text(<<"7">>)]>>,
      <<[k |-> "x", v |-> Num(1)], [k |-> "y", v |-> Num(3)]>>,
      <<[k |-> "x", v |-> Num(0)], [k |-> "satisfaction", v |-> Num(2)],
        [k |-> "y", v |-> Num(5)]>>,
      <<[k |-> "task", v |-> Text(<<"T">>)], [k |-> "start", v |-> Text(<<"s">>)],
        [k |-> "end", v |-> Text(<<"e">>)], [k |-> "progress", v |-> Num(5)]>>,
      <<[k |-> "task", v |-> Text(<<"T">>)], [k |-> "start", v |-> Text(<<"s">>)],
        [k |-> "end", v |-> Text(<<"e">>)], [k |-> "progress", v |-> Null]>>,
      <<[k |-> "date", v |-> Text(<<"d">>)], [k |-> "value", v |-> Num(1)]>>,
      <<[k |-> "x", v |-> Num(0)], [k |-> "y", v |-> Num(5)]>>,
      <<[k |-> "start", v |-> Text(<<"s">>)], [k |-> "end", v |-> Text(<<"e">>)],
        [k |-> "task", v |-> Text(<<"T">>)], [k |-> "progress", v |-> Num(5)]>>,
      <<[k |-> "label", v |-> Text(<<"M", "-", "9">>)], [k |-> "row", v |-> Text(<<"r">>)],
        [k |-> "col", v |-> Num(1)], [k |-> "value", v |-> Num(3)]>>,
      <<[k |-> "id", v |-> Num(7)], [k |-> "value", v |-> Num(3)]>> }

MaxRecords == 2

UserData == UNION {[1..n -> Items] : n \in 0..MaxRecords}

\* [dp.value for dp in data_points if dp.value is not None]
RECURSIVE ValuesOf(_, _)
ValuesOf(points, i) ==
    IF i > Len(points) THEN <<>>
    ELSE IF points[i].value = Null THEN ValuesOf(points, i + 1)
    ELSE <<points[i].value>> \o ValuesOf(points, i + 1)

RECURSIVE Sum(_, _)
Sum(values, i) ==
    IF i > Len(values) THEN 0 ELSE values[i].n + Sum(values, i + 1)

RECURSIVE SumSquares(_, _)
SumSquares(values, i) ==
    IF i > Len(values) THEN 0
    ELSE values[i].n * values[i].n + SumSquares(values, i + 1)

Min(values) ==
    CHOOSE m \in {values[i].n : i \in 1..Len(values)} :
       \A i \in 1..Len(values) : m <= values[i].n
Max(values) ==
    CHOOSE m \in {values[i].n : i \in 1..Len(values)} :
       \A i \in 1..Len(values) : m >= values[i].n

\* The k-th smallest of the values.
Ranked(values, k) ==
    CHOOSE m \in {values[i].n : i \in 1..Len(values)} :
       /\ Cardinality({i \in 1..Len(values) : values[i].n < m}) < k
       /\ Cardinality({i \in 1..Len(values) : values[i].n <= m}) >= k

\* A fraction num / den; mean, median and the variance under std are kept
\* exact.
Fraction(num, den) == [num |-> num, den |-> den]
Zero == Fraction(0, 1)

\* _empty_statistics
empty_statistics ==
    [min |-> 0, max |-> 0, mean |-> Zero, median |-> Zero, std |-> Zero,
     total |-> 0, count |-> 0]

\* statistics.stdev without the guard on the number of values: the sample
\* variance of one value is 0 / 0.
StdevUnguarded(values) ==
    Fraction(Len(values) * SumSquares(values, 1) - Sum(values, 1) * Sum(values, 1),
             Len(values) * (Len(values) - 1))

\* statistics.stdev(values) if len(values) > 1 else 0: std is the square
\* root of the fraction.
Stdev(values) ==
    IF Len(values) > 1
    THEN Fraction(Len(values) * SumSquares(values, 1) - Sum(values, 1) * Sum(values, 1),
                  Len(values) * (Len(values) - 1))
    ELSE Zero

\* statistics.median
Median(values) ==
    IF Len(values) % 2 = 1
    THEN Fraction(Ranked(values, (Len(values) + 1) \div 2), 1)
    ELSE Fraction(Ranked(values, Len(values) \div 2)
                  + Ranked(values, Len(values) \div 2 + 1), 2)

\* _calculate_statistics
calculate_statistics(values) ==
    IF values = <<>> THEN empty_statistics
    ELSE [min |-> Min(values), max |-> Max(values),
          mean |-> Fraction(Sum(values, 1), Len(values)),
          median |-> Median(values), std |-> Stdev(values),
          total |-> Sum(values, 1), count |-> Len(values)]

\* The statistics of a list with a value that is no number cannot be
\* computed: min, sum or statistics.mean raises TypeError.
Numeric(values) == \A i \in 1..Len(values) : values[i].kind = "num"

NoResult == [raised |-> TRUE, points |-> <<>>, source |-> "none",
             statistics |-> empty_statistics]

\* transform_for_chart
transform_for_chart(user_data, chart_type, outcome) ==
    IF user_data = <<>>
    THEN [raised |-> FALSE, points |-> <<>>, source |-> "user_provided",
          statistics |-> empty_statistics]
    ELSE LET done == TransformItems(TransformOf(chart_type), user_data, 1,
                                    <<>>, outcome)
             values == ValuesOf(done.points, 1)
         IN IF done.raised \/ ~Numeric(values) THEN NoResult
            ELSE [raised |-> FALSE, points |-> done.points,
                  source |-> "user_provided",
                  statistics |-> calculate_statistics(values)]

TransformForChart(user_data, chart_type, outcome) ==
    /\ call' = [op |-> "transform_for_chart", user_data |-> user_data,
                chart_type |-> chart_type, outcome |-> outcome]
    /\ ret' = transform_for_chart(user_data, chart_type, outcome)
    /\ UNCHANGED <<vars, loggers>>

\* ---------------------------------------------------------------- local executor
\* python_options: the interpreters tried in order.
python_options ==
    <<"/Library/Frameworks/Python.framework/Versions/3.13/bin/python3",
      "python3", "/usr/bin/python3", "/usr/local/bin/python3">>

\* What subprocess.run does with one interpreter: FileNotFoundError,
\* TimeoutExpired after 30 s, another exception (PermissionError, ...), or
\* the child process ran to its end.
RunOutcomes == {"not_found", "timeout", "other", "ran"}

\* What the steps before the run do: TemporaryDirectory() raises, writing
\* the code file raises, or both succeed.
SetupOutcomes == {"no_tmpdir", "no_code_file", "ok"}

\* The for loop over python_options from option i on: the outcome of the
\* first interpreter that is found, "none" when there is none.
RECURSIVE FirstRun(_, _)
FirstRun(runs, i) ==
    IF i > Len(python_options) THEN "none"
    ELSE IF runs[i] = "not_found" THEN FirstRun(runs, i + 1)
    ELSE runs[i]

Returns(type, content, message) ==
    [raised |-> FALSE, type |-> type, content |-> content, message |-> message]
Raises(exc) ==
    [raised |-> TRUE, type |-> exc, content |-> "none", message |-> "none"]

\* The body of the with statement.
WithBody(setup, runs, exists, readable) ==
    IF setup = "no_code_file" THEN Raises("Exception")
    ELSE CASE FirstRun(runs, 1) = "none" -> Raises("FileNotFoundError")
           [] FirstRun(runs, 1) = "timeout" -> Raises("TimeoutExpired")
           [] FirstRun(runs, 1) = "other" -> Raises("Exception")
           [] FirstRun(runs, 1) = "ran" ->
                IF exists
                THEN IF readable THEN Returns("image", "base64", "none")
                     ELSE Raises("Exception")
                ELSE Returns("error", "none", "No output generated")

\* The with statement: leaving it removes the directory, and a failure of
\* that replaces the result of the body.
WithTemporaryDirectory(setup, runs, exists, readable, removable) ==
    IF setup = "no_tmpdir" THEN Raises("Exception")
    ELSE IF ~removable THEN Raises("Exception")
    ELSE WithBody(setup, runs, exists, readable)

\* Handlers that catch subprocess.TimeoutExpired only.
ExceptTimeoutOnly(result) ==
    IF ~result.raised THEN result
    ELSE IF result.type = "TimeoutExpired"
    THEN Returns("error", "none", "Execution timed out")
    ELSE result

\* except subprocess.TimeoutExpired / except Exception as e
Except(result) ==
    IF ~result.raised THEN result
    ELSE IF result.type = "TimeoutExpired"
    THEN Returns("error", "none", "Execution timed out")
    ELSE Returns("error", "none", "str(e)")

\* execute_chart_code
execute_chart_code(setup, runs, exists, readable, removable) ==
    Except(WithTemporaryDirectory(setup, runs, exists, readable, removable))

ExecuteChartCode(setup, runs, exists, readable, removable) ==
    /\ call' = [op |-> "execute_chart_code", setup |-> setup, runs |-> runs,
                exists |-> exists, readable |-> readable,
                removable |-> removable]
    /\ ret' = execute_chart_code(setup, runs, exists, readable, removable)
    /\ UNCHANGED <<vars, loggers>>

\* The source text handed to execute_chart_code, line by line.  The lines a
\* source is made of: the three forms of import of the plotting library, a
\* backend selection, a save, a show, and any other statement.
ImportPyplot == "import matplotlib.pyplot as plt"
FromImportPyplot == "from matplotlib import pyplot as plt"
ImportMatplotlib == "import matplotlib"
UseAgg == "matplotlib.use('Agg')"
SaveFig == "plt.savefig('output.png')"
SaveFigTmp == "plt.savefig('<tmpdir>/output.png')"
SaveFigInjected == "plt.savefig('<tmpdir>/output.png', dpi=100, bbox_inches='tight')"
Show == "plt.show()"
Other == "plt.plot([1, 2])"
SourceLines == {ImportPyplot, FromImportPyplot, ImportMatplotlib, UseAgg,
                SaveFig, Show, Other}

MaxLines == 3

Sources == UNION {[1..n -> SourceLines] : n \in 0..MaxLines}

\* needle in python_code, for the needles the executor looks for: which
\* lines hold them.
HasUse(code) == \E i \in 1..Len(code) : code[i] = UseAgg
HasImportMatplotlib(code) ==
    \E i \in 1..Len(code) : code[i] \in {ImportPyplot, ImportMatplotlib}
HasSaveFig(code) ==
    \E i \in 1..Len(code) : code[i] \in {SaveFig, SaveFigTmp, SaveFigInjected}

\* str.replace: every line that holds the old text is replaced by the lines
\* of the new text.
RECURSIVE ReplaceLine(_, _, _)
ReplaceLine(code, old, new) ==
    IF code = <<>> THEN <<>>
    ELSE (IF Head(code) = old THEN new ELSE <<Head(code)>>)
         \o ReplaceLine(Tail(code), old, new)

\* The backend step: lines 46-56.
select_backend(python_code) ==
    IF HasUse(python_code) THEN python_code
    ELSE IF HasImportMatplotlib(python_code)
    THEN ReplaceLine(python_code, ImportPyplot,
                     <<ImportMatplotlib, UseAgg, ImportPyplot>>)
    ELSE <<ImportMatplotlib, UseAgg>> \o python_code

\* The output-file step: lines 58-68.
save_to_output_file(python_code) ==
    LET modified_code == ReplaceLine(python_code, SaveFig, <<SaveFigTmp>>)
    IN IF HasSaveFig(modified_code) THEN modified_code
       ELSE ReplaceLine(modified_code, Show, <<SaveFigInjected, Show>>)

\* The text written to the code file.
modified_code(python_code) == save_to_output_file(select_backend(python_code))

WriteCodeFile(python_code) ==
    /\ call' = [op |-> "write_code_file", python_code |-> python_code]
    /\ ret' = modified_code(python_code)
    /\ UNCHANGED <<vars, loggers>>

\* ---------------------------------------------------------------- axis mapper
\* get_axis_labels: AXIS_MAPPINGS.get(chart_type, ("X", "Y", "categorical",
\* "numerical")).
get_axis_labels(chart_type) ==
    CASE chart_type = "line_chart" -> <<"Period", "Value", "temporal", "numerical">>
      [] chart_type = "step_chart" -> <<"Time", "Value", "temporal", "numerical">>
      [] chart_type = "area_chart" -> <<"Period", "Value", "temporal", "numerical">>
      [] chart_type = "stacked_area_chart" -> <<"Period", "Value", "temporal", "numerical">>
      [] chart_type = "bar_chart_vertical" -> <<"Category", "Value", "categorical", "numerical">>
      [] chart_type = "bar_chart_horizontal" -> <<"Value", "Category", "numerical", "categorical">>
      [] chart_type = "grouped_bar" -> <<"Category", "Value", "categorical", "numerical">>
      [] chart_type = "stacked_bar" -> <<"Category", "Value", "categorical", "numerical">>
      [] chart_type = "histogram" -> <<"Value", "Frequency", "numerical", "count">>
      [] chart_type = "box_plot" -> <<"Category", "Distribution", "categorical", "numerical">>
      [] chart_type = "violin_plot" -> <<"Category", "Distribution", "categorical", "numerical">>
      [] chart_type = "scatter_plot" -> <<"X Value", "Y Value", "numerical", "numerical">>
      [] chart_type = "bubble_chart" -> <<"X Value", "Y Value", "numerical", "numerical">>
      [] chart_type = "hexbin" -> <<"X Value", "Y Value", "numerical", "numerical">>
      [] chart_type = "pie_chart" -> <<"Category", "Percentage", "categorical", "percentage">>
      [] chart_type = "waterfall" -> <<"Stage", "Change", "categorical", "numerical">>
      [] chart_type = "funnel" -> <<"Stage", "Value", "categorical", "numerical">>
      [] chart_type = "radar_chart" -> <<"Dimension", "Value", "categorical", "numerical">>
      [] chart_type = "heatmap" -> <<"X Category", "Y Category", "categorical", "categorical">>
      [] chart_type = "error_bar" -> <<"Condition", "Measurement", "categorical", "numerical">>
      [] chart_type = "control_chart" -> <<"Sample", "Value", "temporal", "numerical">>
      [] chart_type = "pareto" -> <<"Cause", "Frequency", "categorical", "count">>
      [] chart_type = "gantt" -> <<"Task", "Timeline", "categorical", "temporal">>
      [] OTHER -> <<"X", "Y", "categorical", "numerical">>

\* The word lists of infer_axis_from_content, in the order of its tests.
TimeWords == {"quarterly", "monthly", "yearly", "daily", "weekly"}
SalesWords == {"sales", "revenue", "income", "profit"}
ProductWords == {"product"}
DepartmentWords == {"department", "team", "division"}
PerformanceWords == {"performance"}
DistributionWords == {"distribution", "spread", "range"}
TriggerWords ==
    TimeWords \cup SalesWords \cup ProductWords \cup DepartmentWords
       \cup PerformanceWords \cup DistributionWords

\* The words a content is made of, and content.lower() of each.
Words == {"quarterly", "Weekly", "SALES", "profit", "products", "team",
          "performance", "orange", "chart"}
Lower(word) ==
    CASE word = "Weekly" -> "weekly"
      [] word = "SALES" -> "sales"
      [] OTHER -> word

\* keyword in content_lower, for a content of one word: the keyword is a
\* substring of the lower-cased word.
SubstringOf(keyword, lowered) ==
    \/ keyword = lowered
    \/ keyword = "product" /\ lowered = "products"
    \/ keyword = "range" /\ lowered = "orange"

\* any(word in content_lower for word in keywords)
Mentions(content, keywords) ==
    \E w \in content : \E k \in keywords : SubstringOf(k, Lower(w))

\* Chart types a caller can pass: the 23 of the enumeration and one that
\* AXIS_MAPPINGS does not know.
AxisChartTypes == ChartTypes \cup {"unknown"}

\* infer_axis_from_content with elif for if: only the first word list that
\* the content mentions is considered.
infer_axis_exclusive(content, chart_type) ==
    LET d == get_axis_labels(chart_type)
    IN CASE Mentions(content, TimeWords) ->
              IF chart_type \in {"line_chart", "area_chart", "bar_chart_vertical"}
              THEN <<"Time Period", d[2]>> ELSE <<d[1], d[2]>>
         [] Mentions(content, SalesWords) ->
              IF chart_type \notin {"pie_chart", "funnel"}
              THEN <<d[1], "Amount ($)">> ELSE <<d[1], d[2]>>
         [] OTHER -> <<d[1], d[2]>>

\* infer_axis_from_content: default_x and default_y after each of the six
\* if statements.
infer_axis_from_content(content, chart_type) ==
    LET d == get_axis_labels(chart_type)
        x1 == IF Mentions(content, TimeWords)
                 /\ chart_type \in {"line_chart", "area_chart", "bar_chart_vertical"}
              THEN "Time Period" ELSE d[1]
        y2 == IF Mentions(content, SalesWords)
                 /\ chart_type \notin {"pie_chart", "funnel"}
              THEN "Amount ($)" ELSE d[2]
        x3 == IF Mentions(content, ProductWords)
                 /\ chart_type \in {"bar_chart_vertical", "bar_chart_horizontal"}
              THEN "Product" ELSE x1
        x4 == IF Mentions(content, DepartmentWords)
                 /\ chart_type \in {"bar_chart_vertical", "grouped_bar"}
              THEN "Department" ELSE x3
        x5 == IF Mentions(content, PerformanceWords) /\ chart_type \in {"radar_chart"}
              THEN "Metric" ELSE x4
        y5 == IF Mentions(content, PerformanceWords) /\ chart_type \in {"radar_chart"}
              THEN "Score" ELSE y2
        y6 == IF Mentions(content, DistributionWords) /\ chart_type \in {"histogram"}
              THEN "Count" ELSE y5
    IN <<x5, y6>>

InferAxis(content, chart_type) ==
    /\ call' = [op |-> "infer_axis_from_content", content |-> content,
                chart_type |-> chart_type]
    /\ ret' = infer_axis_from_content(content, chart_type)
    /\ UNCHANGED <<vars, loggers>>

\* ---------------------------------------------------------------- stateless operations
\* No call is under way: each call is made on its own, from the state the
\* process starts in.
Idle == call = NoCall

LibNext ==
    \/ Idle /\ \E i, g, o \in BOOLEAN : HealthCheck(i, g, o)
    \/ Idle /\ \E i \in BOOLEAN : WebsocketUpgrade(i)
    \/ Idle /\ \E pref \in PreferenceInputs, outcome \in ConstructorOutcomes :
          ParsePayload(pref, outcome)
    \/ Idle /\ \E user_data \in UserData, chart_type \in ChartTypes,
                  outcome \in ModelOutcomes :
          TransformForChart(user_data, chart_type, outcome)
    \/ Idle /\ \E setup \in SetupOutcomes,
                  runs \in [1..Len(python_options) -> RunOutcomes],
                  exists, readable, removable \in BOOLEAN :
          ExecuteChartCode(setup, runs, exists, readable, removable)
    \/ Idle /\ \E content \in SUBSET Words, chart_type \in AxisChartTypes :
          InferAxis(content, chart_type)
    \/ Idle /\ \E python_code \in Sources : WriteCodeFile(python_code)

LibSpec == Init /\ [][LibNext]_allvars

\* ---------------------------------------------------------------- logging setup
\* The loggers of the logging module by name: the level of each and the
\* levels of its handlers, in the order they were added.
LoggerNames == {"main", "api"}

\* The level argument: None, or a level name in any case, or a word that is
\* no attribute of the logging module.
LevelInputs == {"None", "DEBUG", "error", "verbose"}

\* os.getenv("LOG_LEVEL", "INFO")
EnvLevels == {"INFO", "WARNING"}

\* str.upper
Upper(level) ==
    CASE level = "error" -> "ERROR"
      [] level = "verbose" -> "VERBOSE"
      [] OTHER -> level

\* getattr(logging, name): the numeric levels of the logging module.
LevelNames == {"DEBUG", "INFO", "WARNING", "ERROR", "CRITICAL"}
LevelValue(name) ==
    CASE name = "DEBUG" -> 10
      [] name = "INFO" -> 20
      [] name = "WARNING" -> 30
      [] name = "ERROR" -> 40
      [] name = "CRITICAL" -> 50
NOTSET == 0

\* logging.getLogger(name): the logger of that name, created at level NOTSET
\* without handlers when there is none yet.
getLogger(name) ==
    IF name \in DOMAIN loggers THEN loggers[name]
    ELSE [level |-> NOTSET, handlers |-> <<>>]

\* The level the call asks for.
Requested(level, env) == Upper(IF level = "None" THEN env ELSE level)

\* setup_logger(name, level): the loggers after the call.
setup_logger(name, level, env) ==
    LET logger == getLogger(name)
        asked == Requested(level, env)
    IN IF asked \notin LevelNames
       THEN Put(loggers, name, logger)
       ELSE IF logger.handlers # <<>>
       THEN Put(loggers, name, [logger EXCEPT !.level = LevelValue(asked)])
       ELSE Put(loggers, name,
                [level |-> LevelValue(asked),
                 handlers |-> <<LevelValue(asked)>>])

SetupLogger(name, level, env) ==
    /\ call' = [op |-> "setup_logger", name |-> name, level |-> level,
                env |-> env]
    /\ ret' = [op |-> IF Requested(level, env) \in LevelNames
                      THEN "returned" ELSE "AttributeError"]
    /\ loggers' = setup_logger(name, level, env)
    /\ UNCHANGED vars

LogNext ==
    \E name \in LoggerNames, level \in LevelInputs, env \in EnvLevels :
       SetupLogger(name, level, env)

LogSpec == Init /\ [][LogNext]_allvars

\* ---------------------------------------------------------------- vocabulary of the claims
\* The connection of socket w is Open: its receive loop runs, its transport
\* is up and its session is registered with its own socket.
Registered(w) ==
    /\ conn[w].sid \in DOMAIN active_connections
    /\ active_connections[conn[w].sid] = w

Open(w) ==
    /\ conn[w].pc \in {"recv", "sendTry", "sendHandler"}
    /\ alive[w]
    /\ Registered(w)

\* The receive loop of socket w has ended (or has not begun).
LoopEnded(w) == conn[w].pc \in {"idle", "closed", "crashed"}

\* The step is the run of the finally clause of handle_connection of w.
Disconnects(w) == conn[w].pc # "closed" /\ conn'[w].pc = "closed"

\* The step accepts socket w.
Accepts(w) == conn[w].pc = "idle" /\ conn'[w].pc # "idle"

\* The messages of the unit of work tid in the log L, in send order.
TaskLog(L, tid) == SelectSeq(L, LAMBDA m : m.task = tid)

\* The messages of units of work that carry the correlation id corr.
CorrLog(L, corr) == SelectSeq(L, LAMBDA m : m.task # 0 /\ m.corr = corr)

\* The coroutines of the connection of socket w that are inside send_text
\* on that socket: its receive loop and its units of work.
Sending(w) ==
    {<<"conn", v>> : v \in {v \in {w} :
        conn[v].pc \in {"sendAck", "sendTry", "sendHandler"}
        /\ conn[v].sock = w}}
    \cup {<<"task", tid>> : tid \in {tid \in TaskIds :
        /\ tasks[tid].pc \in TaskSends
        /\ tasks[tid].sock = w
        /\ tasks[tid].owner = w}}

AckMsg == ControlMsg("connection_ack")
PongMsg == ControlMsg("pong")
InvalidJsonMsg == ErrorMsg(NoneVal, "INVALID_JSON", 0)

\* ---------------------------------------------------------------- C1
\* C1: once the finally clause of handle_connection has run for a socket,
\* no unit of work started on that socket is in the in-flight table, and no
\* message at all is handed to that socket any more.
C1_DisconnectReleases ==
    [][\A w \in Sockets :
          conn'[w].pc = "closed" =>
             /\ \A k \in DOMAIN active_requests' :
                   tasks'[active_requests'[k]].owner # w
             /\ conn[w].pc = "closed" => log'[w] = log[w]]_vars

\* A session was disconnected (not shut down) with a request in flight,
\* which was cancelled and has ended.
C1_Witness ==
    \E w \in Sockets, tid \in TaskIds :
       /\ conn[w].pc = "closed"
       /\ ~shutdown_done
       /\ tasks[tid].owner = w
       /\ tasks[tid].cancelled
       /\ tasks[tid].pc = "done"
       /\ Len(TaskLog(log[w], tid)) > 0

\* ---------------------------------------------------------------- C2
\* C2: the disconnect of one session leaves the in-flight requests of every
\* other open session in the table and not cancelled.
C2_DisconnectIsolated ==
    [][\A w \in Sockets :
          Disconnects(w) =>
             \A k \in DOMAIN active_requests :
                LET tid == active_requests[k]
                    v == tasks[tid].owner
                IN (v # w /\ Open(v) /\ conn[v].sid # conn[w].sid) =>
                      /\ k \in DOMAIN active_requests'
                      /\ active_requests'[k] = tid
                      /\ tasks'[tid].cancelled = tasks[tid].cancelled]_vars

\* ---------------------------------------------------------------- C3
\* C3: whenever every unit of work has ended, the in-flight table is empty.
C3_TableEmptiesOut ==
    (\A tid \in TaskIds : tasks[tid].pc = "done") =>
        active_requests = EmptyMap

\* ---------------------------------------------------------------- C4
\* The statuses of a sequence of messages are the first ones of 0.1, 0.25,
\* 0.5, 0.9 in that order, and a final message comes last.
ProgressSequence == <<10, 25, 50, 90>>

FixedSequence(ms) ==
    \A i \in 1..Len(ms) :
       IF ms[i].type = "status"
       THEN i <= Len(ProgressSequence) /\ ms[i].prog = ProgressSequence[i]
       ELSE i = Len(ms)

\* Statuses with increasing progress values, and a final message last.
IncreasingSequence(ms) ==
    /\ \A i \in 1..Len(ms) : ms[i].type # "status" => i = Len(ms)
    /\ \A i, j \in 1..Len(ms) :
          (i < j /\ ms[j].type = "status") => ms[i].prog < ms[j].prog

\* C4 as stated: on every socket, the messages of units of work that carry
\* one correlation id are the fixed progress sequence (or a prefix of it)
\* followed by at most one final message.
C4_PerCorrelationId ==
    \A w \in Sockets, tid \in TaskIds :
       tasks[tid].corr # NoneVal =>
          FixedSequence(CorrLog(log[w], tasks[tid].corr))

\* C4 amended: on every socket, the messages of one unit of work are
\* statuses whose progress values increase along 0.1, 0.25, 0.5, 0.9,
\* followed by at most one final message, and a unit of work sends each
\* progress value at most once.
C4_PerUnitOfWork ==
    \A tid \in TaskIds :
       /\ \A w \in Sockets :
             /\ IncreasingSequence(TaskLog(log[w], tid))
             /\ \A i \in 1..Len(TaskLog(log[w], tid)) :
                   TaskLog(log[w], tid)[i].type = "status" =>
                      \E n \in 1..Len(ProgressSequence) :
                         TaskLog(log[w], tid)[i].prog = ProgressSequence[n]
       /\ \A v, w \in Sockets :
             v # w =>
                \A i \in 1..Len(TaskLog(log[v], tid)),
                   j \in 1..Len(TaskLog(log[w], tid)) :
                   TaskLog(log[v], tid)[i].type = "status" =>
                      TaskLog(log[v], tid)[i] # TaskLog(log[w], tid)[j]

\* Two units of work with one correlation id have sent on one socket, one
\* of them its four statuses and its response.
C4_Witness ==
    \E w \in Sockets, t1, t2 \in TaskIds :
       /\ t1 # t2
       /\ tasks[t1].corr = tasks[t2].corr
       /\ Len(TaskLog(log[w], t1)) = 5
       /\ Len(TaskLog(log[w], t2)) >= 1

\* ---------------------------------------------------------------- C5
\* The step is the receipt by the receive loop of w of a frame that is not
\* an analytics_request.
ReceivesOther(w) ==
    \E kind \in FrameKinds \ {"analytics_request"}, m \in Messages :
       Receive(w, kind, m.mid, m.cid, m.rid)

\* C5: a frame received on an open connection whose socket has not failed
\* is answered with a typed message; for a frame that starts no unit of
\* work the answer is sent by the receive loop before it reads on.
C5_EveryFrameAnswered ==
    [][\A w \in Sockets :
          (Open(w) /\ ReceivesOther(w)) =>
             Len(log'[w]) = Len(log[w]) + 1]_vars

\* ---------------------------------------------------------------- C6
\* The step is the receipt of a frame of the given kind by socket w.
ReceivesKind(w, kind) ==
    \E m \in Messages : Receive(w, kind, m.mid, m.cid, m.rid)

\* C6: a frame that is not JSON, received on an open connection, is
\* answered with exactly one INVALID_JSON error without correlation id; the
\* connection stays open and registered and no unit of work is started; the
\* loop reads on when the send returns, and a ping is answered with a pong.
C6_InvalidJson ==
    [][\A w \in Sockets :
          /\ (Open(w) /\ ReceivesKind(w, "malformed")) =>
                /\ log' = [log EXCEPT ![w] = Append(@, InvalidJsonMsg)]
                /\ conn'[w].pc \in {"recv", "sendHandler"}
                /\ Registered(w)'
                /\ tasks' = tasks
                /\ active_requests' = active_requests
          /\ (Open(w) /\ conn[w].pc = "sendHandler"
                /\ conn'[w].pc # "sendHandler") =>
                /\ conn'[w].pc = "recv"
                /\ log' = log
          /\ (Open(w) /\ ReceivesKind(w, "ping")) =>
                log' = [log EXCEPT ![w] = Append(@, PongMsg)]]_vars

\* A connection has answered a malformed frame and, after it, a ping.
C6_Witness ==
    \E w \in Sockets :
       /\ Open(w)
       /\ conn[w].pc = "recv"
       /\ \E i, j \in 1..Len(log[w]) :
             /\ i < j
             /\ log[w][i] = InvalidJsonMsg
             /\ log[w][j] = PongMsg

\* ---------------------------------------------------------------- C7
\* C7: a unit of work is created only for a session that is registered.
C7_StartedOnlyWhenOpen ==
    [][Len(tasks') > Len(tasks) =>
          tasks'[Len(tasks')].sid \in DOMAIN active_connections]_vars

\* ---------------------------------------------------------------- C8
\* C8: once shutdown has run, every task that was in the in-flight table is
\* cancelled, no session is registered and every receive loop has ended.
C8_ShutdownCloses ==
    shutdown_done =>
       /\ \A k \in DOMAIN active_requests :
             LET t == tasks[active_requests[k]] IN
             t.cancelled \/ t.pc = "done"
       /\ active_connections = EmptyMap
       /\ \A w \in Sockets : LoopEnded(w)

\* ---------------------------------------------------------------- C9
\* C9: at most one send_text is in progress on a socket at any time.
C9_WritesSerialized ==
    \A w \in Sockets : Cardinality(Sending(w)) <= 1

\* ---------------------------------------------------------------- C10
\* C10: accepting a socket registers its session with request_count 0 and
\* hands connection_ack to that socket as its first message; no other
\* message of the socket is a connection_ack.
C10_AckFirst ==
    [][\A w \in Sockets :
          /\ Accepts(w) =>
                /\ Registered(w)'
                /\ connection_metadata'[conn'[w].sid] = 0
                /\ log'[w] = <<AckMsg>>
          /\ log'[w] # <<>> =>
                /\ log'[w][1] = AckMsg
                /\ \A i \in 2..Len(log'[w]) : log'[w][i] # AckMsg]_vars

\* A socket has got its connection_ack and then the first status of a
\* unit of work, counted in its session's request_count.
C10_Witness ==
    \E w \in Sockets :
       /\ Registered(w)
       /\ connection_metadata[conn[w].sid] = 1
       /\ Len(log[w]) >= 2
       /\ log[w][1] = AckMsg
       /\ log[w][2].type = "status"

\* ---------------------------------------------------------------- C11
\* The GENERATION_FAILED errors and the responses of the unit of work tid
\* that have been handed to socket w.
TaskErrors(w, tid) ==
    SelectSeq(TaskLog(log[w], tid), LAMBDA m : m.type = "error")

TaskResponses(w, tid) ==
    SelectSeq(TaskLog(log[w], tid), LAMBDA m : m.type = "analytics_response")

\* The number of messages of the sequences q[w], over all sockets.
RECURSIVE Total(_, _)
Total(q, ws) ==
    IF ws = {} THEN 0
    ELSE LET w == CHOOSE x \in ws : TRUE
         IN Len(q[w]) + Total(q, ws \ {w})

ErrorCount(tid) == Total([w \in Sockets |-> TaskErrors(w, tid)], Sockets)
ResponseCount(tid) == Total([w \in Sockets |-> TaskResponses(w, tid)], Sockets)

\* The units of work whose except clause has run.
Failed == {tid \in TaskIds : tasks[tid].exc # "none"}

\* The exceptions raised by a statement other than a send.
StepFailures == {"parse", "construct", "generate", "convert"}

\* C11 as stated: every unit of work that has raised and ended (at any step,
\* a send included) has counted one error and has sent exactly one
\* GENERATION_FAILED error with its correlation id and no response.
C11_EveryFailureAnswered ==
    /\ total_errors = Cardinality(Failed)
    /\ \A tid \in Failed :
          tasks[tid].pc = "done" =>
             /\ ErrorCount(tid) = 1
             /\ ResponseCount(tid) = 0

\* C11 amended: every unit of work whose except clause has run has counted
\* exactly one error; a unit of work sends at most one error, which is a
\* GENERATION_FAILED with its correlation id, and only after it has raised;
\* when the statement that raised is not a send, no response is sent, and
\* the error is sent in that same run if the session is registered with a
\* socket whose transport is up; the run leaves the connections as they are.
C11_FailureSurfaced ==
    [][/\ total_errors' = Cardinality(Failed')
       /\ \A tid \in DOMAIN tasks' :
             (log' # log \/ tasks' # tasks) =>
             /\ ErrorCount(tid)' <= 1
             /\ ErrorCount(tid)' = 1 => tid \in Failed'
             /\ \A w \in Sockets : \A i \in 1..Len(TaskErrors(w, tid)') :
                   /\ TaskErrors(w, tid)'[i].sub = "GENERATION_FAILED"
                   /\ TaskErrors(w, tid)'[i].corr = tasks'[tid].corr
             /\ tasks'[tid].exc \in StepFailures => ResponseCount(tid)' = 0
       /\ \A tid \in TaskIds :
             (tasks[tid].exc = "none" /\ tasks'[tid].exc # "none") =>
                /\ total_errors' = total_errors + 1
                /\ conn' = conn
                /\ active_connections' = active_connections
                /\ DOMAIN connection_metadata' = DOMAIN connection_metadata
                /\ (/\ tasks'[tid].exc \in StepFailures
                    /\ tasks[tid].sid \in DOMAIN active_connections
                    /\ alive[active_connections[tasks[tid].sid]]) =>
                      LET w == active_connections[tasks[tid].sid] IN
                      /\ ErrorCount(tid)' = 1
                      /\ Len(TaskErrors(w, tid)') = 1]_vars

\* A unit of work has failed in the engine call, has sent its error on the
\* open connection of its session after three statuses, and has ended.
C11_Witness ==
    \E tid \in TaskIds :
       /\ tasks[tid].exc = "generate"
       /\ tasks[tid].pc = "done"
       /\ Open(tasks[tid].owner)
       /\ Len(TaskLog(log[tasks[tid].owner], tid)) = 4
       /\ Len(TaskErrors(tasks[tid].owner, tid)) = 1
       /\ total_errors = 1

\* ---------------------------------------------------------------- C12
\* C12: a chart_preference string that is not a chart type is dropped: the
\* request goes to the engine, with its chart preference absent.
C12_InvalidPreferenceDropped ==
    (call.op = "payload" /\ call.pref # NoPreference
        /\ call.pref[2] \notin ChartTypes) =>
       /\ ret.outcome = "engine"
       /\ ret.pref = NoPreference

\* ---------------------------------------------------------------- C13
\* C13: a JSON message of unknown type received on an open connection is
\* answered with exactly one UNKNOWN_MESSAGE_TYPE error that carries the
\* correlation_id of the message (None when it has none); no unit of work is
\* started, no counter changes and the connection stays open.
C13_UnknownTypeAnswered ==
    [][\A w \in Sockets, m \in Messages :
          (Open(w) /\ Receive(w, "unknown", m.mid, m.cid, m.rid)) =>
             /\ log' = [log EXCEPT ![w] =
                   Append(@, ErrorMsg(Get(m.cid, NoneVal),
                                      "UNKNOWN_MESSAGE_TYPE", 0))]
             /\ tasks' = tasks
             /\ active_requests' = active_requests
             /\ total_requests' = total_requests
             /\ total_errors' = total_errors
             /\ connection_metadata' = connection_metadata
             /\ conn'[w].pc \in {"recv", "sendTry"}
             /\ Registered(w)']_vars

\* ---------------------------------------------------------------- C14
\* The units of work of socket w that are suspended in the engine call.
InEngine(w) ==
    {tid \in TaskIds : tasks[tid].owner = w /\ tasks[tid].pc = "generate"
                       /\ ~tasks[tid].cancelled}

\* C14: a ping (type ping, or type control with subtype ping) received on an
\* open connection is answered in the same run of the receive loop with
\* exactly one pong, whatever the units of work of the session are doing.
C14_PingAnswered ==
    [][\A w \in Sockets :
          (Open(w) /\ (ReceivesKind(w, "ping")
                        \/ ReceivesKind(w, "control_ping"))) =>
             /\ log' = [log EXCEPT ![w] = Append(@, PongMsg)]
             /\ tasks' = tasks
             /\ active_requests' = active_requests]_vars

\* A pong is the last message of an open connection, sent after the third
\* status of a unit of work that is still suspended in the engine call.
C14_Witness ==
    \E w \in Sockets :
       /\ Open(w)
       /\ InEngine(w) # {}
       /\ Len(log[w]) >= 2
       /\ log[w][Len(log[w])] = PongMsg
       /\ log[w][Len(log[w]) - 1].type = "status"
       /\ log[w][Len(log[w]) - 1].prog = 50

\* ---------------------------------------------------------------- C15
\* C15: GET /health answers 200 and healthy when the gateway is initialized
\* and a key of either LLM provider is configured, and 503 and degraded
\* otherwise.
C15_HealthReflectsCredentials ==
    call.op = "health" =>
       IF call.initialized
          /\ has_llm_configured(call.google_api_key, call.openai_api_key)
       THEN ret.code = 200 /\ ret.status = "healthy"
       ELSE ret.code = 503 /\ ret.status = "degraded"

\* ---------------------------------------------------------------- C16
\* C16 as stated: without a handler the upgrade is closed with the
\* policy-violation code 1008 and the reason "Service not initialized", and
\* handle_connection is not called: nothing is registered or sent.
C16_RefusedPolicyViolation ==
    (call.op = "ws_upgrade" /\ ~call.initialized) =>
       /\ ret.closed
       /\ ret.code = 1008
       /\ ret.reason = "Service not initialized"
       /\ ~ret.handled
       /\ active_connections = EmptyMap
       /\ \A w \in Sockets : log[w] = <<>>

\* C16 amended: as above, the close code being 1011 (internal error).
C16_RefusedInternalError ==
    (call.op = "ws_upgrade" /\ ~call.initialized) =>
       /\ ret.closed
       /\ ret.code = 1011
       /\ ret.reason = "Service not initialized"
       /\ ~ret.handled
       /\ active_connections = EmptyMap
       /\ \A w \in Sockets : log[w] = <<>>

\* An upgrade request has been refused.
C16_Witness ==
    /\ call.op = "ws_upgrade"
    /\ ~call.initialized
    /\ ret.closed

\* The records of the call that carry one of the value-role field names.
HasValueField(item) == \E i \in 1..Len(ValueNames) : Has(item, ValueNames[i])
WithValueField(user_data) ==
    {i \in 1..Len(user_data) : HasValueField(user_data[i])}

\* C17: in the heatmap transform and in the standard transform a record with
\* none of the value-role field names yields no DataPoint and every record
\* with one of them yields exactly one DataPoint, whatever the other records
\* of the call are: the transform ends normally with as many DataPoints as
\* there are records with a value-role field.
C17_OnePointPerValueField ==
    (call.op = "transform_for_chart"
       /\ TransformOf(call.chart_type) \in {"heatmap", "standard"})
    => /\ ~ret.raised
       /\ Len(ret.points) = Cardinality(WithValueField(call.user_data))

\* The emitted points that have a value.
Valued(points) == {i \in 1..Len(points) : points[i].value # Null}

RECURSIVE SumOfValued(_, _)
SumOfValued(points, idx) ==
    IF idx = {} THEN 0
    ELSE LET i == CHOOSE j \in idx : TRUE
         IN points[i].value.n + SumOfValued(points, idx \ {i})

\* Every record of the call is dropped by the transformation of its chart
\* type.
AllDropped ==
    \A i \in 1..Len(call.user_data) :
       TransformItem(TransformOf(call.chart_type), call.user_data[i],
                     call.outcome) = Skip

\* C18: the statistics that transform_for_chart returns are those of the
\* values of the DataPoints it returns: count is the number of points with a
\* value, total their sum, min and max their extremes, std is 0 for fewer
\* than 2 values; with no point every statistic is 0; and a call whose
\* records are all dropped (or that has none) raises no error.
C18_StatisticsOfEmitted ==
    call.op = "transform_for_chart" =>
       /\ AllDropped => ~ret.raised /\ ret.points = <<>>
       /\ ~ret.raised =>
            LET st == ret.statistics
                idx == Valued(ret.points)
            IN /\ st.count = Cardinality(idx)
               /\ st.total = SumOfValued(ret.points, idx)
               /\ idx # {} =>
                     /\ \E i \in idx : st.min = ret.points[i].value.n
                     /\ \E i \in idx : st.max = ret.points[i].value.n
                     /\ \A i \in idx : /\ st.min <= ret.points[i].value.n
                                        /\ st.max >= ret.points[i].value.n
               /\ Cardinality(idx) < 2 => st.std = Zero
               /\ ret.points = <<>> => st = empty_statistics

\* A call that dropped a record, emitted one DataPoint with a value and one
\* without, and returned statistics.
C18_Witness ==
    /\ call.op = "transform_for_chart"
    /\ ~ret.raised
    /\ Len(ret.points) = 2
    /\ Cardinality(Valued(ret.points)) = 1
    /\ ret.statistics.count = 1
    /\ ret.statistics.total = 5

\* The failure modes of a call of execute_chart_code.
NoInterpreter == \A i \in 1..Len(python_options) : call.runs[i] = "not_found"
TimedOut == FirstRun(call.runs, 1) = "timeout"
OtherException ==
    \/ call.setup # "ok"
    \/ ~call.removable
    \/ FirstRun(call.runs, 1) = "other"
    \/ FirstRun(call.runs, 1) = "ran" /\ call.exists /\ ~call.readable
MissingOutput == FirstRun(call.runs, 1) = "ran" /\ ~call.exists

\* C19: execute_chart_code never raises and returns a result tagged image or
\* error; no interpreter, a timeout, a missing output file and any other
\* exception each give an error result without content and with a message;
\* an image result is given only when an interpreter ran and the output
\* file exists.
C19_ExecutorNeverRaises ==
    call.op = "execute_chart_code" =>
       /\ ~ret.raised
       /\ ret.type \in {"image", "error"}
       /\ (NoInterpreter \/ TimedOut \/ MissingOutput \/ OtherException)
            => /\ ret.type = "error"
               /\ ret.content = "none"
               /\ ret.message # "none"
       /\ ret.type = "image"
            => FirstRun(call.runs, 1) = "ran" /\ call.exists

\* The first two interpreters are missing, the third raises an exception
\* that is neither FileNotFoundError nor TimeoutExpired, and the call
\* returns an error result.
C19_Witness ==
    /\ call.op = "execute_chart_code"
    /\ call.setup = "ok" /\ call.removable
    /\ call.runs[1] = "not_found" /\ call.runs[2] = "not_found"
    /\ call.runs[3] = "other"
    /\ ret.type = "error" /\ ret.message = "str(e)"

\* The six override rules as a table: the words that trigger the rule, the
\* chart types it applies to, and the labels it sets ("" leaves a label as
\* it is).
OverrideRules ==
    <<[words |-> TimeWords,
       types |-> {"line_chart", "area_chart", "bar_chart_vertical"},
       x |-> "Time Period", y |-> ""],
      [words |-> SalesWords,
       types |-> AxisChartTypes \ {"pie_chart", "funnel"},
       x |-> "", y |-> "Amount ($)"],
      [words |-> ProductWords,
       types |-> {"bar_chart_vertical", "bar_chart_horizontal"},
       x |-> "Product", y |-> ""],
      [words |-> DepartmentWords,
       types |-> {"bar_chart_vertical", "grouped_bar"},
       x |-> "Department", y |-> ""],
      [words |-> PerformanceWords, types |-> {"radar_chart"},
       x |-> "Metric", y |-> "Score"],
      [words |-> DistributionWords, types |-> {"histogram"},
       x |-> "", y |-> "Count"]>>

\* The label pair after the rules from rule i on are applied in order.
RECURSIVE ApplyRules(_, _, _, _)
ApplyRules(pair, i, content, chart_type) ==
    IF i > Len(OverrideRules) THEN pair
    ELSE LET rule == OverrideRules[i]
             fires == Mentions(content, rule.words) /\ chart_type \in rule.types
         IN ApplyRules(<<IF fires /\ rule.x # "" THEN rule.x ELSE pair[1],
                         IF fires /\ rule.y # "" THEN rule.y ELSE pair[2]>>,
                       i + 1, content, chart_type)

DefaultPair(chart_type) ==
    <<get_axis_labels(chart_type)[1], get_axis_labels(chart_type)[2]>>

\* C20: for every chart type and every combination of trigger keywords in
\* the content, infer_axis_from_content returns the default label pair of
\* get_axis_labels with the six override rules applied in their order, each
\* only for its chart types, a later override replacing an earlier one; a
\* content with none of the trigger keywords gives exactly the default pair.
C20_OrderedOverrides ==
    call.op = "infer_axis_from_content" =>
       /\ ret = ApplyRules(DefaultPair(call.chart_type), 1, call.content,
                           call.chart_type)
       /\ ~Mentions(call.content, TriggerWords)
            => ret = DefaultPair(call.chart_type)

\* A vertical bar chart whose content mentions a period, a product and a
\* team: three rules set the x label and the last one stays.
C20_Witness ==
    /\ call.op = "infer_axis_from_content"
    /\ call.chart_type = "bar_chart_vertical"
    /\ {"quarterly", "products", "team", "SALES"} \subseteq call.content
    /\ ret = <<"Department", "Amount ($)">>

\* ---------------------------------------------------------------- C21
\* C21: after every call setup_logger(name, level) that returns, the first
\* for a name and every later one, the level of the logger and the level of
\* each of its handlers are the level the call asked for.
C21_LevelOnLoggerAndHandler ==
    (call.op = "setup_logger" /\ ret.op = "returned") =>
       LET logger == loggers[call.name]
           asked == LevelValue(Requested(call.level, call.env))
       IN /\ logger.level = asked
          /\ Len(logger.handlers) = 1
          /\ logger.handlers[1] = asked

\* ---------------------------------------------------------------- C22
\* The x-coordinate of a record: field x if the record has it, otherwise
\* satisfaction, otherwise x_value.
XCoordinate(item) ==
    IF Has(item, "x") THEN Field(item, "x")
    ELSE IF Has(item, "satisfaction") THEN Field(item, "satisfaction")
    ELSE Field(item, "x_value")

NumberOrAbsent(v) == v.kind \in {"num", "null"}

\* The points of the records from record i on that have both coordinates.
RECURSIVE ScatterPoints(_, _)
ScatterPoints(user_data, i) ==
    IF i > Len(user_data) THEN <<>>
    ELSE LET item == user_data[i]
         IN (IF XCoordinate(item) # Null /\ ExtractValue(item) # Null
             THEN <<Emit(ExtractLabel(item), ExtractValue(item),
                         <<XCoordinate(item)>>)>>
             ELSE <<>>) \o ScatterPoints(user_data, i + 1)

\* C22: in the scatter_plot / bubble_chart transform the x-coordinate of a
\* record is its field x if it has one, otherwise satisfaction, otherwise
\* x_value, and a DataPoint with the y-value as value and that x-coordinate
\* as metadata.x is emitted exactly for the records that have both, for
\* every numeric value of the coordinates, 0 included.
C22_ScatterCoordinates ==
    (/\ call.op = "transform_for_chart"
     /\ TransformOf(call.chart_type) = "scatter"
     /\ call.outcome = "keep"
     /\ \A i \in 1..Len(call.user_data) :
           /\ NumberOrAbsent(XCoordinate(call.user_data[i]))
           /\ NumberOrAbsent(ExtractValue(call.user_data[i])))
    => /\ ~ret.raised
       /\ ret.points = ScatterPoints(call.user_data, 1)

\* ---------------------------------------------------------------- C23
HasLabelField(item) == \E i \in 1..Len(LabelNames) : Has(item, LabelNames[i])

\* The label of a gantt record: its label-role field, otherwise its task
\* field, otherwise the literal Task.
GanttLabel(item) ==
    IF HasLabelField(item) THEN FirstPresent(item, LabelNames, 1)
    ELSE IF Has(item, "task") THEN Field(item, "task")
    ELSE Text(<<"T", "a", "s", "k">>)

\* The labels of the records from record i on that have a start and an end.
RECURSIVE GanttLabels(_, _)
GanttLabels(user_data, i) ==
    IF i > Len(user_data) THEN <<>>
    ELSE (IF Truthy(GanttStart(user_data[i])) /\ Truthy(GanttEnd(user_data[i]))
          THEN <<GanttLabel(user_data[i])>> ELSE <<>>)
         \o GanttLabels(user_data, i + 1)

\* C23: in the gantt transform the label of an emitted DataPoint is the
\* record's label-role field when it has one, otherwise the value of its
\* task field, otherwise the literal Task, whatever other string fields the
\* record has and in whatever key order.
C23_GanttLabel ==
    (/\ call.op = "transform_for_chart"
     /\ TransformOf(call.chart_type) = "gantt"
     /\ ~ret.raised)
    => /\ Len(ret.points) = Len(GanttLabels(call.user_data, 1))
       /\ \A i \in 1..Len(ret.points) :
             ret.points[i].label = GanttLabels(call.user_data, 1)[i]

\* ---------------------------------------------------------------- C24
\* The position of a heatmap record by the first rule that applies: explicit
\* row and col; explicit day and hour; the label split on its first '-'; the
\* label split on its first space; otherwise (label, Value).
Position(item) ==
    LET label == StrOf(ExtractLabel(item))
    IN CASE Has(item, "row") /\ Has(item, "col") ->
              <<StrOf(Field(item, "row")), StrOf(Field(item, "col"))>>
         [] Has(item, "day") /\ Has(item, "hour") ->
              <<StrOf(Field(item, "day")), StrOf(Field(item, "hour"))>>
         [] Contains(label, "-") ->
              <<Strip(Before(label, "-")), Strip(After(label, "-"))>>
         [] Contains(label, " ") ->
              <<Strip(Before(label, " ")), Strip(After(label, " "))>>
         [] OTHER -> <<label, <<"V", "a", "l", "u", "e">>>>

\* C24: for every heatmap record with a usable value the emitted DataPoint's
\* (row, col) is given by the first applicable rule: explicit row and col
\* fields; explicit day and hour fields; the label split on its first '-';
\* the label split on its first space; otherwise (label, Value).
C24_MatrixPosition ==
    (/\ call.op = "transform_for_chart"
     /\ TransformOf(call.chart_type) = "heatmap"
     /\ call.outcome = "keep"
     /\ \A i \in 1..Len(call.user_data) :
           /\ ExtractValue(call.user_data[i]) # Null
           /\ CanFloat(ExtractValue(call.user_data[i])))
    => /\ ~ret.raised
       /\ Len(ret.points) = Len(call.user_data)
       /\ \A i \in 1..Len(ret.points) :
             ret.points[i].meta = Position(call.user_data[i])

\* The same for the records whose label is text or whose position is given
\* by explicit fields: the cases in which the position rules of the code
\* are reached without an exception.
C24_TextLabels ==
    (/\ call.op = "transform_for_chart"
     /\ TransformOf(call.chart_type) = "heatmap"
     /\ call.outcome = "keep"
     /\ \A i \in 1..Len(call.user_data) :
           /\ ExtractValue(call.user_data[i]) # Null
           /\ CanFloat(ExtractValue(call.user_data[i]))
           /\ \/ ExtractLabel(call.user_data[i]).kind = "text"
              \/ Has(call.user_data[i], "row") /\ Has(call.user_data[i], "col")
              \/ Has(call.user_data[i], "day") /\ Has(call.user_data[i], "hour"))
    => /\ ~ret.raised
       /\ Len(ret.points) = Len(call.user_data)
       /\ \A i \in 1..Len(ret.points) :
             ret.points[i].meta = Position(call.user_data[i])

\* ---------------------------------------------------------------- C25
\* The lines of a text that import the plotting library, in any form.
PlottingImports(code) ==
    {i \in 1..Len(code) :
        code[i] \in {ImportPyplot, FromImportPyplot, ImportMatplotlib}}
\* The lines that import its plotting interface, which fixes the backend.
PyplotImports(code) ==
    {i \in 1..Len(code) : code[i] \in {ImportPyplot, FromImportPyplot}}
Selections(code) == {i \in 1..Len(code) : code[i] = UseAgg}

\* C25: for every source text the text written to the code file selects the
\* non-interactive backend: when the source selects none, a selection is in
\* the written text before the first import of the plotting interface,
\* whatever the form of the import, and at its start (after the import of
\* the library it needs) when the source has no plotting import.
C25_BackendSelected ==
    (call.op = "write_code_file" /\ Selections(call.python_code) = {})
    => /\ Selections(ret) # {}
       /\ \A i \in PyplotImports(ret) : \E j \in Selections(ret) : j < i
       /\ PlottingImports(call.python_code) = {}
            => ret[1] = ImportMatplotlib /\ ret[2] = UseAgg

\* ---------------------------------------------------------------- C26
\* The units of work that have been started, have not ended and have not
\* been cancelled.
Running == {tid \in TaskIds : tasks[tid].pc # "done" /\ ~tasks[tid].cancelled}

\* C26: every unit of work that has been started and has not ended has an
\* entry of its own in the in-flight table, so that the active_requests
\* statistic counts at least the running units of work, also when requests
\* reuse a correlation id.
C26_OneEntryPerRunningUnit ==
    /\ \A tid \in Running :
          \E k \in DOMAIN active_requests : active_requests[k] = tid
    /\ Cardinality(DOMAIN active_requests) >= Cardinality(Running)

\* ---------------------------------------------------------------- C27
\* The receive loop of socket w has begun and its finally clause has not run.
Connected(w) == conn[w].pc \notin {"idle", "closed", "crashed"}

\* C27: while two connections are open with the same session id, the
\* disconnect of one leaves the session registered and leaves the units of
\* work of the other uncancelled, and no message of a unit of work started
\* on one connection is handed to the socket of the other.
C27_SameSessionIndependent ==
    [][\A w \in Sockets : \A v \in Sockets \ {w} :
          (Connected(w) /\ Connected(v) /\ conn[w].sid = conn[v].sid) =>
             /\ Disconnects(w) =>
                   /\ conn[v].sid \in DOMAIN active_connections =>
                         conn[v].sid \in DOMAIN active_connections'
                   /\ \A tid \in TaskIds :
                         tasks[tid].owner = v =>
                            tasks'[tid].cancelled = tasks[tid].cancelled
             /\ \A tid \in TaskIds :
                   tasks[tid].owner = v => TaskLog(log'[w], tid) = <<>>]_vars

\* ---------------------------------------------------------------- C28
\* The terminal messages of a unit of work.
Terminal(m) ==
    \/ m.type = "analytics_response"
    \/ m.type = "error" /\ m.sub = "GENERATION_FAILED"

\* The number of terminal messages of the unit of work tid handed to the
\* sockets ws.
RECURSIVE TerminalsOn(_, _)
TerminalsOn(ws, tid) ==
    IF ws = {} THEN 0
    ELSE LET w == CHOOSE x \in ws : TRUE
         IN Len(SelectSeq(TaskLog(log[w], tid), Terminal))
            + TerminalsOn(ws \ {w}, tid)

\* C28: a unit of work sends at most one terminal message (an
\* analytics_response or a GENERATION_FAILED error, never both) and no
\* status message after it; a unit of work that has ended without being
\* cancelled, with its session registered, has sent exactly one.
C28_OneTerminalMessage ==
    \A tid \in TaskIds :
       /\ TerminalsOn(Sockets, tid) <= 1
       /\ \A w \in Sockets :
             LET L == TaskLog(log[w], tid)
             IN \A i, j \in 1..Len(L) :
                   (i < j /\ Terminal(L[i])) => L[j].type # "status"
       /\ (/\ tasks[tid].pc = "done"
           /\ ~tasks[tid].cancelled
           /\ tasks[tid].sid \in DOMAIN active_connections)
             => TerminalsOn(Sockets, tid) = 1

\* ---------------------------------------------------------------- C29
\* After the step, the errors counted are at most the requests counted,
\* neither counter is below what it was, and no session's request_count
\* is above total_requests.
CountersStep ==
    /\ total_errors' <= total_requests'
    /\ total_requests' >= total_requests
    /\ total_errors' >= total_errors
    /\ \A sid \in DOMAIN connection_metadata' :
          connection_metadata'[sid] <= total_requests'

\* total_requests grows only by one, in the first run of a unit of work.
OncePerUnit ==
    total_requests' # total_requests =>
       /\ total_requests' = total_requests + 1
       /\ \E tid \in TaskIds :
             tasks[tid].pc = "created" /\ tasks'[tid].pc # "created"

\* total_errors grows only by one, in a run of a unit of work that is not
\* cancelled and catches its first exception.
ErrorsByUncancelled ==
    total_errors' # total_errors =>
       /\ total_errors' = total_errors + 1
       /\ \E tid \in TaskIds :
             /\ ~tasks[tid].cancelled
             /\ tasks[tid].exc = "none"
             /\ tasks'[tid].exc # "none"

\* C29 as amended: total_errors <= total_requests, the counters never
\* decrease, every request_count is at most total_requests, a unit of work
\* increases total_requests at most once, and a unit of work does not
\* increase total_errors once it is cancelled.
C29_CountersConsistent ==
    [][CountersStep /\ OncePerUnit /\ ErrorsByUncancelled]_vars

\* Two requests were counted: one unit of work was cancelled after its first
\* run and has ended, the other caught an exception and was counted as the
\* only error.
C29_Witness ==
    \E t1 \in TaskIds, t2 \in TaskIds :
       /\ tasks[t1].cancelled /\ tasks[t1].pc = "done"
       /\ tasks[t1].exc = "none"
       /\ ~tasks[t2].cancelled /\ tasks[t2].exc # "none"
       /\ total_requests = 2
       /\ total_errors = 1

\* C29: as above, and no cancelled unit of work has ever increased
\* total_errors.
C29_CancelledNeverCounted ==
    [][/\ CountersStep
       /\ OncePerUnit
       /\ \A tid \in 1..Len(tasks') :
             tasks'[tid].cancelled => tasks'[tid].exc = "none"]_vars

\* ---------------------------------------------------------------- C30
\* C30: the connection table and the metadata table always hold the same
\* session ids: a connect puts the session into both, a disconnect leaves
\* it in neither, and the disconnect of a session that is not registered
\* changes neither table.
C30_TablesAgree ==
    [][/\ DOMAIN active_connections' = DOMAIN connection_metadata'
       /\ \A w \in Sockets :
             /\ Accepts(w) =>
                   /\ conn'[w].sid \in DOMAIN active_connections'
                   /\ conn'[w].sid \in DOMAIN connection_metadata'
             /\ Disconnects(w) =>
                   /\ conn[w].sid \notin DOMAIN active_connections'
                   /\ conn[w].sid \notin DOMAIN connection_metadata'
                   /\ conn[w].sid \notin DOMAIN active_connections =>
                         /\ active_connections' = active_connections
                         /\ connection_metadata' = connection_metadata]_vars

\* Two connections used one session id and both have been disconnected
\* without a shutdown: the second disconnect found the session gone.  A
\* unit of work has counted a request in the metadata meanwhile.
C30_Witness ==
    /\ conn[1].pc = "closed"
    /\ conn[2].pc = "closed"
    /\ conn[1].sid = conn[2].sid
    /\ ~shutdown_done
    /\ total_requests > 0
    /\ DOMAIN active_connections = {}
    /\ DOMAIN connection_metadata = {}

====
